---------------------------- MODULE Spec2Model ----------------------------
(* Verification model of duckdb_scalarfs: the inline-content URI codecs    *)
(* (scalarfs_functions.cpp, data_uri_filesystem.cpp) and the variable      *)
(* store adapter (variable_filesystem.cpp).                                *)
(* Strings are sequences of byte values 0..255.                            *)
EXTENDS Integers, Sequences, FiniteSets, TLC

(***************************************************************************)
(* Bounds of the model                                                     *)
(***************************************************************************)
\* longest raw payload/content enumerated over RawBytes
MaxLen == 4
\* longest run of filler bytes put in front of a tail (auto-encode density)
MaxPad == 21
\* longest tail over TailBytes that follows the filler
MaxTail == 2
\* longest accumulated write buffer of a variable write handle
MaxBuf == 2
\* longest buffer handed to one Write call
MaxChunk == 1

(***************************************************************************)
(* Byte values                                                             *)
(***************************************************************************)
NUL == 0
TAB == 9
LF == 10
CR == 13
DEL == 127
BS == 92
PCT == 37
COMMA == 44
CH0 == 48
CHn == 110
CHr == 114
CHt == 116
CHx == 120

\* bytes the enumerated raw contents are made of: backslash, 'x', '1',
\* '+' and '%'
RawBytes == {BS, CHx, 49, 43, PCT}
\* bytes of the tail that follows a filler run: backslash, NUL, 0x01, 0x7F
\* and newline
TailBytes == {BS, NUL, 1, DEL, LF}

PfxData == <<100, 97, 116, 97, 58>>
PfxVarchar == <<100, 97, 116, 97, 43, 118, 97, 114, 99, 104, 97, 114, 58>>
PfxBlob == <<100, 97, 116, 97, 43, 98, 108, 111, 98, 58>>
PfxDataBase64 == <<100, 97, 116, 97, 58, 59, 98, 97, 115, 101, 54, 52, 44>>
MarkBase64 == <<59, 98, 97, 115, 101, 54, 52>>

(***************************************************************************)
(* std::string helpers                                                     *)
(***************************************************************************)
StartsWith(s, p) == Len(s) >= Len(p) /\ SubSeq(s, 1, Len(p)) = p

\* s.substr(n): the suffix after the first n bytes
Substr(s, n) == SubSeq(s, n + 1, Len(s))

\* s.find(c): 1-based index of the first c, 0 when there is none
FindByte(s, c) ==
    IF \E i \in 1..Len(s) : s[i] = c
    THEN CHOOSE i \in 1..Len(s) : s[i] = c /\ \A j \in 1..(i - 1) : s[j] # c
    ELSE 0

\* s.find(p) != npos
Contains(s, p) ==
    \E i \in 1..(Len(s) - Len(p) + 1) : SubSeq(s, i, i + Len(p) - 1) = p

Ok(v) == [ok |-> TRUE, val |-> v, err |-> "none"]
Err(e) == [ok |-> FALSE, val |-> <<>>, err |-> e]

IsHexDigit(c) == c \in (48..57) \cup (65..70) \cup (97..102)

HexVal(c) ==
    IF c \in 48..57 THEN c - 48
    ELSE IF c \in 65..70 THEN c - 55
    ELSE c - 87

\* "%02X" digit
HexDigitUpper(n) == IF n < 10 THEN 48 + n ELSE 55 + n

IsSpace(c) == c \in (9..13) \cup {32}
IsSign(c) == c \in {43, 45}

\* strtol(hex, &end, 16) on the buffer {c1, c2, '\0'}: end is the number of
\* bytes consumed, val the converted value.  strtol skips leading white
\* space and accepts one sign before the digits.
Strtol16(c1, c2) ==
    IF IsHexDigit(c1)
    THEN IF IsHexDigit(c2)
         THEN [end |-> 2, val |-> 16 * HexVal(c1) + HexVal(c2)]
         ELSE [end |-> 1, val |-> HexVal(c1)]
    ELSE IF IsSpace(c1) /\ IsHexDigit(c2)
    THEN [end |-> 2, val |-> HexVal(c2)]
    ELSE IF IsSign(c1) /\ IsHexDigit(c2)
    THEN [end |-> 2, val |-> IF c1 = 45 THEN 0 - HexVal(c2) ELSE HexVal(c2)]
    ELSE [end |-> 0, val |-> 0]

\* static_cast<char>(long)
ToChar(v) == (v + 256) % 256

(***************************************************************************)
(* Base64 (duckdb Blob::ToBase64 / Blob::FromBase64, the standard alphabet *)
(* with '=' padding)                                                       *)
(***************************************************************************)
B64Char(n) ==
    IF n < 26 THEN 65 + n
    ELSE IF n < 52 THEN 97 + (n - 26)
    ELSE IF n < 62 THEN 48 + (n - 52)
    ELSE IF n = 62 THEN 43
    ELSE 47

\* value of a base64 digit, -1 for a byte outside the alphabet
B64Val(c) ==
    IF c \in 65..90 THEN c - 65
    ELSE IF c \in 97..122 THEN c - 97 + 26
    ELSE IF c \in 48..57 THEN c - 48 + 52
    ELSE IF c = 43 THEN 62
    ELSE IF c = 47 THEN 63
    ELSE 0 - 1

RECURSIVE ToBase64(_)
ToBase64(s) ==
    IF Len(s) = 0 THEN <<>>
    ELSE IF Len(s) = 1
    THEN <<B64Char(s[1] \div 4), B64Char((s[1] % 4) * 16), 61, 61>>
    ELSE IF Len(s) = 2
    THEN <<B64Char(s[1] \div 4), B64Char((s[1] % 4) * 16 + (s[2] \div 16)),
           B64Char((s[2] % 16) * 4), 61>>
    ELSE <<B64Char(s[1] \div 4), B64Char((s[1] % 4) * 16 + (s[2] \div 16)),
           B64Char((s[2] % 16) * 4 + (s[3] \div 64)), B64Char(s[3] % 64)>>
         \o ToBase64(SubSeq(s, 4, Len(s)))

\* the bytes of one group of four digits; the last group may end in '=' or '=='
B64Group(g, last) ==
    LET v1 == B64Val(g[1])
        v2 == B64Val(g[2])
        v3 == B64Val(g[3])
        v4 == B64Val(g[4])
    IN  IF v1 < 0 \/ v2 < 0 THEN Err("Conversion")
        ELSE IF last /\ g[3] = 61 /\ g[4] = 61
        THEN Ok(<<v1 * 4 + (v2 \div 16)>>)
        ELSE IF v3 < 0 THEN Err("Conversion")
        ELSE IF last /\ g[4] = 61
        THEN Ok(<<v1 * 4 + (v2 \div 16), (v2 % 16) * 16 + (v3 \div 4)>>)
        ELSE IF v4 < 0 THEN Err("Conversion")
        ELSE Ok(<<v1 * 4 + (v2 \div 16), (v2 % 16) * 16 + (v3 \div 4),
                  (v3 % 4) * 64 + v4>>)

RECURSIVE FromBase64From(_, _)
FromBase64From(s, acc) ==
    IF Len(s) = 0 THEN Ok(acc)
    ELSE LET g == B64Group(SubSeq(s, 1, 4), Len(s) = 4)
         IN  IF ~g.ok THEN g
             ELSE FromBase64From(SubSeq(s, 5, Len(s)), acc \o g.val)

FromBase64(s) ==
    IF Len(s) % 4 # 0 THEN Err("Conversion") ELSE FromBase64From(s, <<>>)

(***************************************************************************)
(* Encoders (scalarfs_functions.cpp)                                       *)
(***************************************************************************)
EncodeDataUri(input) == PfxDataBase64 \o ToBase64(input)

EncodeVarcharUri(input) == PfxVarchar \o input

\* faulty variant of EscapeByte: a backslash is emitted unescaped
EscapeByte_PlainBackslash(c) ==
    IF c = LF THEN <<BS, CHn>>
    ELSE IF c = CR THEN <<BS, CHr>>
    ELSE IF c = TAB THEN <<BS, CHt>>
    ELSE IF c = NUL THEN <<BS, CH0>>
    ELSE IF c < 32 \/ c = DEL
    THEN <<BS, CHx, HexDigitUpper(c \div 16), HexDigitUpper(c % 16)>>
    ELSE <<c>>

\* the escape EncodeBlobUri emits for one byte
EscapeByte(c) ==
    IF c = BS THEN <<BS, BS>>
    ELSE IF c = LF THEN <<BS, CHn>>
    ELSE IF c = CR THEN <<BS, CHr>>
    ELSE IF c = TAB THEN <<BS, CHt>>
    ELSE IF c = NUL THEN <<BS, CH0>>
    ELSE IF c < 32 \/ c = DEL
    THEN <<BS, CHx, HexDigitUpper(c \div 16), HexDigitUpper(c % 16)>>
    ELSE <<c>>

RECURSIVE EscapeBytes(_)
EscapeBytes(s) ==
    IF s = <<>> THEN <<>> ELSE EscapeByte(Head(s)) \o EscapeBytes(Tail(s))

EncodeBlobUri(input) == PfxBlob \o EscapeBytes(input)

\* one iteration of the scan loop of EncodeScalarfsUri over byte c
ScanStep(st, c) ==
    IF c = BS THEN [safe |-> st.safe, esc |-> st.esc + 1]
    ELSE IF c < 32 /\ c # LF /\ c # CR /\ c # TAB
    THEN [safe |-> FALSE, esc |-> st.esc + 1]
    ELSE IF c = DEL THEN [safe |-> FALSE, esc |-> st.esc + 1]
    ELSE st

\* safe_for_varchar and escape_count after the scan of s[i..]
RECURSIVE ScanFrom(_, _, _)
ScanFrom(s, i, st) ==
    IF i > Len(s) THEN st ELSE ScanFrom(s, i + 1, ScanStep(st, s[i]))

\* faulty variant of FewEscapes: the comparison is not strict
FewEscapes_NotStrict(esc, size) == esc * 10 <= size

\* the blob-or-base64 test on escape_count and content.size()
FewEscapes(esc, size) == esc * 10 < size

EncodeScalarfsUri(input) ==
    LET st == ScanFrom(input, 1, [safe |-> TRUE, esc |-> 0])
    IN  IF st.safe THEN EncodeVarcharUri(input)
        ELSE IF FewEscapes(st.esc, Len(input)) THEN EncodeBlobUri(input)
        ELSE EncodeDataUri(input)

(***************************************************************************)
(* Decoders of the conversion functions (scalarfs_functions.cpp)           *)
(***************************************************************************)
\* the percent loop of DecodeDataUri from index i (1-based)
RECURSIVE FnPercentFrom(_, _, _)
FnPercentFrom(data, i, acc) ==
    IF i > Len(data) THEN Ok(acc)
    ELSE IF data[i] = PCT /\ i + 2 <= Len(data)
              /\ Strtol16(data[i + 1], data[i + 2]).end = 2
    THEN FnPercentFrom(data, i + 3,
                       Append(acc, ToChar(Strtol16(data[i + 1], data[i + 2]).val)))
    ELSE FnPercentFrom(data, i + 1, Append(acc, data[i]))

DecodeDataUri(uri) ==
    IF ~StartsWith(uri, PfxData) THEN Err("InvalidInput")
    ELSE LET comma_pos == FindByte(uri, COMMA)
         IN  IF comma_pos = 0 THEN Err("InvalidInput")
             ELSE LET metadata == SubSeq(uri, 6, comma_pos - 1)
                      data == Substr(uri, comma_pos)
                  IN  IF Contains(metadata, MarkBase64)
                      THEN FromBase64(data)
                      ELSE FnPercentFrom(data, 1, <<>>)

DecodeVarcharUri(uri) ==
    IF ~StartsWith(uri, PfxVarchar) THEN Err("InvalidInput")
    ELSE Ok(Substr(uri, 13))

\* the escape loop of DecodeBlobUri from index i (1-based)
RECURSIVE FnBlobFrom(_, _, _)
FnBlobFrom(content, i, acc) ==
    IF i > Len(content) THEN Ok(acc)
    ELSE IF content[i] = BS /\ i + 1 <= Len(content)
    THEN LET next == content[i + 1]
         IN  IF next = BS THEN FnBlobFrom(content, i + 2, Append(acc, BS))
             ELSE IF next = CHn THEN FnBlobFrom(content, i + 2, Append(acc, LF))
             ELSE IF next = CHr THEN FnBlobFrom(content, i + 2, Append(acc, CR))
             ELSE IF next = CHt THEN FnBlobFrom(content, i + 2, Append(acc, TAB))
             ELSE IF next = CH0 THEN FnBlobFrom(content, i + 2, Append(acc, NUL))
             ELSE IF next = CHx
             THEN IF i + 3 <= Len(content)
                  THEN LET r == Strtol16(content[i + 2], content[i + 3])
                       IN  IF r.end = 2
                           THEN FnBlobFrom(content, i + 4, Append(acc, ToChar(r.val)))
                           ELSE Err("InvalidInput")
                  ELSE Err("InvalidInput")
             ELSE Err("InvalidInput")
    ELSE FnBlobFrom(content, i + 1, Append(acc, content[i]))

DecodeBlobUri(uri) ==
    IF ~StartsWith(uri, PfxBlob) THEN Err("InvalidInput")
    ELSE FnBlobFrom(Substr(uri, 10), 1, <<>>)

DecodeScalarfsUri(uri) ==
    IF StartsWith(uri, PfxVarchar) THEN DecodeVarcharUri(uri)
    ELSE IF StartsWith(uri, PfxBlob) THEN DecodeBlobUri(uri)
    ELSE IF StartsWith(uri, PfxData) THEN DecodeDataUri(uri)
    ELSE Err("InvalidInput")

(***************************************************************************)
(* Decoders of the data URI filesystem (data_uri_filesystem.cpp)           *)
(***************************************************************************)
\* the loop of DecodeURLEncoded from index i (1-based)
RECURSIVE DecodeURLEncodedFrom(_, _, _)
DecodeURLEncodedFrom(input, i, acc) ==
    IF i > Len(input) THEN Ok(acc)
    ELSE IF input[i] = PCT
    THEN IF i + 2 > Len(input) THEN Err("IO")
         ELSE IF ~(IsHexDigit(input[i + 1]) /\ IsHexDigit(input[i + 2]))
         THEN Err("IO")
         ELSE DecodeURLEncodedFrom(input, i + 3,
                  Append(acc, ToChar(Strtol16(input[i + 1], input[i + 2]).val)))
    ELSE DecodeURLEncodedFrom(input, i + 1, Append(acc, input[i]))

DecodeURLEncoded(input) == DecodeURLEncodedFrom(input, 1, <<>>)

DecodeBase64(input) == IF input = <<>> THEN Ok(<<>>) ELSE FromBase64(input)

\* the loop of DecodeBlobEscapes from index i (1-based)
RECURSIVE DecodeBlobEscapesFrom(_, _, _)
DecodeBlobEscapesFrom(input, i, acc) ==
    IF i > Len(input) THEN Ok(acc)
    ELSE IF input[i] # BS
    THEN DecodeBlobEscapesFrom(input, i + 1, Append(acc, input[i]))
    ELSE IF i + 1 > Len(input) THEN Err("IO")
    ELSE LET next == input[i + 1]
         IN  IF next = BS THEN DecodeBlobEscapesFrom(input, i + 2, Append(acc, BS))
             ELSE IF next = CHn THEN DecodeBlobEscapesFrom(input, i + 2, Append(acc, LF))
             ELSE IF next = CHr THEN DecodeBlobEscapesFrom(input, i + 2, Append(acc, CR))
             ELSE IF next = CHt THEN DecodeBlobEscapesFrom(input, i + 2, Append(acc, TAB))
             ELSE IF next = CH0 THEN DecodeBlobEscapesFrom(input, i + 2, Append(acc, NUL))
             ELSE IF next = CHx
             THEN IF i + 3 > Len(input) THEN Err("IO")
                  ELSE LET r == Strtol16(input[i + 2], input[i + 3])
                       IN  IF r.end # 2 THEN Err("IO")
                           ELSE DecodeBlobEscapesFrom(input, i + 4,
                                                      Append(acc, ToChar(r.val)))
             ELSE Err("IO")

DecodeBlobEscapes(input) == DecodeBlobEscapesFrom(input, 1, <<>>)

ParseDataURI(uri) ==
    LET comma_pos == FindByte(uri, COMMA)
    IN  IF comma_pos = 0 THEN Err("IO")
        ELSE LET metadata == SubSeq(uri, 6, comma_pos - 1)
                 data == Substr(uri, comma_pos)
             IN  IF Contains(metadata, MarkBase64)
                 THEN DecodeBase64(data)
                 ELSE DecodeURLEncoded(data)

ParseVarcharURI(uri) == Ok(Substr(uri, 13))

ParseBlobURI(uri) == DecodeBlobEscapes(Substr(uri, 10))

\* the content DataURIFileSystem::OpenFile puts in the memory handle
DataOpenContent(path, forWriting) ==
    IF forWriting THEN Err("IO")
    ELSE IF StartsWith(path, PfxVarchar) THEN ParseVarcharURI(path)
    ELSE IF StartsWith(path, PfxBlob) THEN ParseBlobURI(path)
    ELSE IF StartsWith(path, PfxData) THEN ParseDataURI(path)
    ELSE Err("IO")

(***************************************************************************)
(* Variable store adapter (variable_filesystem.cpp)                        *)
(***************************************************************************)
StrTmp == <<116, 109, 112, 95>>
PfxVariable == <<118, 97, 114, 105, 97, 98, 108, 101, 58>>
PfxTmpVariable == <<116, 109, 112, 95, 118, 97, 114, 105, 97, 98, 108, 101, 58>>

CanHandleFile(fpath) == StartsWith(fpath, PfxVariable) \/ StartsWith(fpath, PfxTmpVariable)

\* faulty variant of ExtractVariableName: the staging prefix is dropped
ExtractVariableName_DropTmp(path) ==
    IF StartsWith(path, PfxTmpVariable) THEN Substr(path, 13)
    ELSE Substr(path, 9)

ExtractVariableName(path) ==
    IF StartsWith(path, PfxTmpVariable) THEN StrTmp \o Substr(path, 13)
    ELSE Substr(path, 9)

\* the published name the pipelines of the model work on
NameA == <<97>>
VarPath(n) == PfxVariable \o n
TmpPath(n) == PfxTmpVariable \o n
\* the paths a session uses: the published path, its staging path, and the
\* published path of a variable a user happened to name tmp_a
VarPaths == {VarPath(NameA), TmpPath(NameA), VarPath(StrTmp \o NameA)}
\* a path of another filesystem
OtherPath == <<47, 120>>
Keys == {ExtractVariableName(p) : p \in VarPaths}

\* stored values: a type tag and the bytes (for VARCHAR and BLOB) or the
\* text rendering (for the other types); NULL is the SQL null
Absent == [type |-> "ABSENT", data |-> <<>>]
NullValue == [type |-> "NULL", data |-> <<>>]
UserValues == {NullValue,
               [type |-> "VARCHAR", data |-> <<104>>],
               [type |-> "INTEGER", data |-> <<52>>]}

\* bytes written through a write handle
WriteBytes == {NUL, 97}

SeqsUpTo(S, n) == UNION {[1..k -> S] : k \in 0..n}

\* buffers handed to Write
Chunks == SeqsUpTo(WriteBytes, MaxChunk)

\* duckdb Blob::ToString: printable bytes verbatim, the others as \xHH
BlobByteToString(c) ==
    IF c >= 32 /\ c <= 126 /\ c # BS /\ c # 39 /\ c # 34 THEN <<c>>
    ELSE <<BS, CHx, HexDigitUpper(c \div 16), HexDigitUpper(c % 16)>>

RECURSIVE BlobToString(_)
BlobToString(s) ==
    IF s = <<>> THEN <<>> ELSE BlobByteToString(Head(s)) \o BlobToString(Tail(s))

\* Value::ToString
ValueToString(v) == IF v.type = "BLOB" THEN BlobToString(v.data) ELSE v.data

NoHandle == [mode |-> "none", path |-> <<>>, var_name |-> <<>>, buffer |-> <<>>,
             position |-> 0]

\* the last filesystem call: the operation, the path of the handle it was
\* made on or that it opened (empty for RemoveFile and MoveFile), and the
\* error it raised ("none": it returned)
NoCall == [op |-> "none", path |-> <<>>, err |-> "none"]

Call(op, path, err) == [op |-> op, path |-> path, err |-> err]

\* std::string::resize(n) on a shorter string: value-initialised (zero) bytes
Resize(buf, n) == [i \in 1..n |-> IF i <= Len(buf) THEN buf[i] ELSE NUL]

\* buf.replace(location, n, src, n) with location + n <= buf.size()
Replace(buf, location, src) ==
    [i \in 1..Len(buf) |->
        IF i > location /\ i <= location + Len(src) THEN src[i - location] ELSE buf[i]]

\* faulty variant of WriteAtBuffer: the gap is filled with the byte 'a'
WriteAtBuffer_GapNotZero(buf, src, location) ==
    [i \in 1..(IF location + Len(src) > Len(buf) THEN location + Len(src) ELSE Len(buf)) |->
        IF i > location /\ i <= location + Len(src) THEN src[i - location]
        ELSE IF i <= Len(buf) THEN buf[i]
        ELSE 97]

\* the buffer after Write(handle, buffer, nr_bytes, location)
WriteAtBuffer(buf, src, location) ==
    Replace(IF location + Len(src) > Len(buf) THEN Resize(buf, location + Len(src))
            ELSE buf,
            location, src)

\* memchr(buffer.data(), '\0', buffer.size()) != nullptr
HasNull(buffer) == \E i \in 1..Len(buffer) : buffer[i] = NUL

\* faulty variant of CloseStore: an empty buffer is stored like any other
CloseStore_NoEmptyCheck(st, var_name, buffer) ==
    IF HasNull(buffer)
    THEN [st EXCEPT ![var_name] = [type |-> "BLOB", data |-> buffer]]
    ELSE [st EXCEPT ![var_name] = [type |-> "VARCHAR", data |-> buffer]]

\* the store after VariableWriteHandle::Close
CloseStore(st, var_name, buffer) ==
    IF buffer = <<>> THEN st
    ELSE IF HasNull(buffer)
    THEN [st EXCEPT ![var_name] = [type |-> "BLOB", data |-> buffer]]
    ELSE [st EXCEPT ![var_name] = [type |-> "VARCHAR", data |-> buffer]]

\* faulty variant of OpenReadResult: only text and binary values open
OpenReadResult_TypeChecked(v) ==
    IF v = Absent THEN Err("NotFound")
    ELSE IF v = NullValue THEN Err("NullValue")
    ELSE IF v.type \notin {"VARCHAR", "BLOB"} THEN Err("TypeMismatch")
    ELSE Ok(ValueToString(v))

\* the outcome of the read branch of OpenFile for the looked-up value
OpenReadResult(v) ==
    IF v = Absent THEN Err("NotFound")
    ELSE IF v = NullValue THEN Err("NullValue")
    ELSE Ok(ValueToString(v))

\* the store after the three steps of MoveFile
MoveStore(st, src_var, tgt_var) ==
    LET written == [st EXCEPT ![tgt_var] = st[src_var]]
    IN  [written EXCEPT ![src_var] = Absent]

(***************************************************************************)
(* Path-variable parser (pathvariable_modifiers.hpp)                       *)
(***************************************************************************)
COLON == 58
BANG == 33
DOLLAR == 36

PfxPathVariable == <<112, 97, 116, 104, 118, 97, 114, 105, 97, 98, 108, 101, 58>>
PfxTmpPathVariable ==
    <<116, 109, 112, 95, 112, 97, 116, 104, 118, 97, 114, 105, 97, 98, 108, 101, 58>>

\* the modifier keywords: no-glob, search, no-missing, no-scalarfs,
\* no-protocols, no-cache, append, prepend
KwNoGlob == <<110, 111, 45, 103, 108, 111, 98>>
KwSearch == <<115, 101, 97, 114, 99, 104>>
KwNoMissing == <<110, 111, 45, 109, 105, 115, 115, 105, 110, 103>>
KwNoScalarfs == <<110, 111, 45, 115, 99, 97, 108, 97, 114, 102, 115>>
KwNoProtocols == <<110, 111, 45, 112, 114, 111, 116, 111, 99, 111, 108, 115>>
KwNoCache == <<110, 111, 45, 99, 97, 99, 104, 101>>
KwAppend == <<97, 112, 112, 101, 110, 100>>
KwPrepend == <<112, 114, 101, 112, 101, 110, 100>>

PvCanHandle(path) ==
    StartsWith(path, PfxPathVariable) \/ StartsWith(path, PfxTmpPathVariable)

IsTempPath(path) == StartsWith(path, PfxTmpPathVariable)

\* PathVariableValue(): empty value, not a variable reference
EmptyValue == [value |-> <<>>, is_variable |-> FALSE]

ParseValue(value_str) ==
    IF value_str = <<>> THEN EmptyValue
    ELSE IF value_str[1] = DOLLAR
    THEN [value |-> Substr(value_str, 1), is_variable |-> TRUE]
    ELSE [value |-> value_str, is_variable |-> FALSE]

\* ParsedPathVariablePath()
EmptyParsed == [variable_name |-> <<>>, flags |-> {}, append_value |-> EmptyValue,
                prepend_value |-> EmptyValue, is_temp |-> FALSE]

HasFlag(flags, flag) == flag \in flags

WithFlag(result, flag) == [result EXCEPT !.flags = @ \cup {flag}]

\* ParseModifier: whether the segment is a modifier, and the result with
\* its flag (and value) set
ParseModifier(modifier, result) ==
    LET bang_pos == FindByte(modifier, BANG)
        mod_name == IF bang_pos # 0 THEN SubSeq(modifier, 1, bang_pos - 1) ELSE modifier
        mod_value == IF bang_pos # 0 THEN Substr(modifier, bang_pos) ELSE <<>>
        yes(res) == [recognized |-> TRUE, result |-> res]
    IN  IF mod_name = KwNoGlob THEN yes(WithFlag(result, "NO_GLOB"))
        ELSE IF mod_name = KwSearch THEN yes(WithFlag(result, "SEARCH"))
        ELSE IF mod_name = KwNoMissing THEN yes(WithFlag(result, "IGNORE_MISSING"))
        ELSE IF mod_name = KwNoScalarfs THEN yes(WithFlag(result, "PASSTHRU_SCALARFS"))
        ELSE IF mod_name = KwNoProtocols
        THEN yes(WithFlag(result, "PASSTHRU_EXPLICIT_FS"))
        ELSE IF mod_name = KwNoCache THEN yes(WithFlag(result, "NO_CACHE"))
        ELSE IF mod_name = KwAppend
        THEN yes([WithFlag(result, "APPEND") EXCEPT !.append_value = ParseValue(mod_value)])
        ELSE IF mod_name = KwPrepend
        THEN yes([WithFlag(result, "PREPEND") EXCEPT
                      !.prepend_value = ParseValue(mod_value)])
        ELSE [recognized |-> FALSE, result |-> result]

\* the segments between the ':' of remainder
RECURSIVE SplitSegments(_)
SplitSegments(remainder) ==
    LET pos == FindByte(remainder, COLON)
    IN  IF pos = 0 THEN <<remainder>>
        ELSE <<SubSeq(remainder, 1, pos - 1)>> \o SplitSegments(Substr(remainder, pos))

\* segments i.. rejoined with ':'
RECURSIVE JoinSegments(_, _)
JoinSegments(segments, i) ==
    IF i = Len(segments) THEN segments[i]
    ELSE segments[i] \o <<COLON>> \o JoinSegments(segments, i + 1)

\* the variable name (and a value given after '!') taken from var_part
ParseVariablePart(var_part, result) ==
    LET bang_pos == FindByte(var_part, BANG)
    IN  IF bang_pos # 0 /\ result.append_value.value = <<>>
           /\ result.prepend_value.value = <<>>
        THEN IF HasFlag(result.flags, "APPEND") \/ HasFlag(result.flags, "PREPEND")
             THEN LET named == [result EXCEPT
                                   !.variable_name = SubSeq(var_part, 1, bang_pos - 1)]
                      value == ParseValue(Substr(var_part, bang_pos))
                  IN  IF HasFlag(result.flags, "APPEND")
                      THEN [named EXCEPT !.append_value = value]
                      ELSE [named EXCEPT !.prepend_value = value]
             ELSE [result EXCEPT !.variable_name = var_part]
        ELSE [result EXCEPT !.variable_name = var_part]

\* the loop of Parse over the segments, from segment i
RECURSIVE ParseSegments(_, _, _)
\* faulty variant of ParseSegments: the name is the first segment that is
\* not a modifier, the later segments dropped
ParseSegments_DropsRest(segments, i, result) ==
    IF i > Len(segments) THEN result
    ELSE LET m == ParseModifier(segments[i], result)
         IN  IF m.recognized THEN ParseSegments(segments, i + 1, m.result)
             ELSE ParseVariablePart(segments[i], result)

ParseSegments(segments, i, result) ==
    IF i > Len(segments) THEN result
    ELSE LET m == ParseModifier(segments[i], result)
         IN  IF m.recognized THEN ParseSegments(segments, i + 1, m.result)
             ELSE ParseVariablePart(JoinSegments(segments, i), result)

\* PathVariableParser::Parse
Parse(path) ==
    IF StartsWith(path, PfxTmpPathVariable)
    THEN ParseSegments(SplitSegments(Substr(path, 17)), 1,
                       [EmptyParsed EXCEPT !.is_temp = TRUE])
    ELSE IF StartsWith(path, PfxPathVariable)
    THEN ParseSegments(SplitSegments(Substr(path, 13)), 1, EmptyParsed)
    ELSE EmptyParsed

(***************************************************************************)
(* Path-variable resolver and glob engine (pathvariable_filesystem.cpp)    *)
(***************************************************************************)
SLASH == 47

\* "://"
MarkProtocol == <<58, 47, 47>>

\* config.GetUserVariable(name, result): the value, Absent when it fails
Lookup(st, name) == IF name \in DOMAIN st THEN st[name] ELSE Absent

\* the LIST types of the model and their child types
IsListType(t) == t \in {"VARCHAR[]", "BLOB[]", "INTEGER[]"}

ChildType(t) ==
    IF t = "VARCHAR[]" THEN "VARCHAR" ELSE IF t = "BLOB[]" THEN "BLOB" ELSE "INTEGER"

IsPathType(t) == t \in {"VARCHAR", "BLOB"}

\* FileSystem::HasGlob: the string holds '*', '?' or '['
HasGlob(str) == \E i \in 1..Len(str) : str[i] \in {42, 63, 91}

\* duckdb::Glob(s, pattern) for patterns made of literal bytes, '*' and '?'
RECURSIVE GlobMatchFrom(_, _, _, _)
GlobMatchFrom(s, i, pattern, j) ==
    IF j > Len(pattern) THEN i > Len(s)
    ELSE IF pattern[j] = 42
    THEN \E k \in i..(Len(s) + 1) : GlobMatchFrom(s, k, pattern, j + 1)
    ELSE IF i > Len(s) THEN FALSE
    ELSE IF pattern[j] = 63 \/ pattern[j] = s[i]
    THEN GlobMatchFrom(s, i + 1, pattern, j + 1)
    ELSE FALSE

\* faulty variant of GlobMatch: every name matches
GlobMatch_All(s, pattern) == TRUE

GlobMatch(s, pattern) == GlobMatchFrom(s, 1, pattern, 1)

\* s.find(p): 1-based index of the first occurrence, 0 when there is none
FindSeq(s, p) ==
    IF Contains(s, p)
    THEN CHOOSE i \in 1..(Len(s) - Len(p) + 1) :
             /\ SubSeq(s, i, i + Len(p) - 1) = p
             /\ \A k \in 1..(i - 1) : SubSeq(s, k, k + Len(p) - 1) # p
    ELSE 0

\* std::string operator<
RECURSIVE LexLess(_, _)
LexLess(a, b) ==
    IF b = <<>> THEN FALSE
    ELSE IF a = <<>> THEN TRUE
    ELSE IF Head(a) # Head(b) THEN Head(a) < Head(b)
    ELSE LexLess(Tail(a), Tail(b))

\* faulty variant of InsertSorted: a path already in the sequence is dropped
RECURSIVE InsertSorted_Unique(_, _)
InsertSorted_Unique(p, sorted) ==
    IF sorted = <<>> THEN <<p>>
    ELSE IF p = Head(sorted) THEN sorted
    ELSE IF LexLess(p, Head(sorted)) THEN <<p>> \o sorted
    ELSE <<Head(sorted)>> \o InsertSorted_Unique(p, Tail(sorted))

\* p put into an ascending sequence, after the elements that are not larger
RECURSIVE InsertSorted(_, _)
InsertSorted(p, sorted) ==
    IF sorted = <<>> THEN <<p>>
    ELSE IF LexLess(p, Head(sorted)) THEN <<p>> \o sorted
    ELSE <<Head(sorted)>> \o InsertSorted(p, Tail(sorted))

\* std::sort by path
RECURSIVE SortPaths(_)
SortPaths(paths) ==
    IF paths = <<>> THEN <<>> ELSE InsertSorted(Head(paths), SortPaths(Tail(paths)))

\* the non-null children of a list, as strings
RECURSIVE ChildStrings(_)
ChildStrings(children) ==
    IF children = <<>> THEN <<>>
    ELSE (IF Head(children) = NullValue THEN <<>> ELSE <<ValueToString(Head(children))>>)
         \o ChildStrings(Tail(children))

\* faulty variant of ExtractPathsFromValue: the type is not examined
ExtractPathsFromValue_NoTypeCheck(var_value) ==
    IF var_value = NullValue THEN [ok |-> FALSE, paths |-> <<>>]
    ELSE IF IsListType(var_value.type)
    THEN [ok |-> TRUE, paths |-> ChildStrings(var_value.children)]
    ELSE [ok |-> TRUE, paths |-> <<ValueToString(var_value)>>]

\* extract_paths_from_value: whether the value gives paths, and the paths
ExtractPathsFromValue(var_value) ==
    IF var_value = NullValue THEN [ok |-> FALSE, paths |-> <<>>]
    ELSE IF IsListType(var_value.type)
    THEN IF ~IsPathType(ChildType(var_value.type)) THEN [ok |-> FALSE, paths |-> <<>>]
         ELSE [ok |-> TRUE, paths |-> ChildStrings(var_value.children)]
    ELSE IF ~IsPathType(var_value.type) THEN [ok |-> FALSE, paths |-> <<>>]
    ELSE [ok |-> TRUE, paths |-> <<ValueToString(var_value)>>]

\* resolve_value: the strings of an append/prepend value
ResolveValue(pv_value, st) ==
    IF pv_value.value = <<>> THEN Ok(<<>>)
    ELSE IF ~pv_value.is_variable THEN Ok(<<pv_value.value>>)
    ELSE LET var_result == Lookup(st, pv_value.value)
         IN  IF var_result = Absent THEN Err("NotFound")
             ELSE IF var_result = NullValue THEN Err("NullValue")
             ELSE IF IsListType(var_result.type)
             THEN IF ~IsPathType(ChildType(var_result.type)) THEN Err("TypeMismatch")
                  ELSE Ok(ChildStrings(var_result.children))
             ELSE IF IsPathType(var_result.type) THEN Ok(<<ValueToString(var_result)>>)
             ELSE Err("TypeMismatch")

IsSlash(c) == c = SLASH \/ c = BS

\* join_paths
JoinPaths(base, suffix) ==
    IF base = <<>> THEN suffix
    ELSE IF suffix = <<>> THEN base
    ELSE LET base_has_slash == IsSlash(base[Len(base)])
             suffix_has_slash == IsSlash(suffix[1])
         IN  IF base_has_slash /\ suffix_has_slash THEN base \o Substr(suffix, 1)
             ELSE IF ~base_has_slash /\ ~suffix_has_slash
             THEN base \o <<SLASH>> \o suffix
             ELSE base \o suffix

\* is_scalarfs_path
IsScalarfsPath(p) ==
    \/ StartsWith(p, PfxData) \/ StartsWith(p, PfxVarchar) \/ StartsWith(p, PfxBlob)
    \/ StartsWith(p, PfxVariable) \/ StartsWith(p, PfxPathVariable)

\* has_explicit_protocol: find("://") gives a 0-based pos with 0 < pos < 20
HasExplicitProtocol(p) ==
    LET at == FindSeq(p, MarkProtocol)
    IN  at # 0 /\ at - 1 > 0 /\ at - 1 < 20

\* faulty variant of ShouldPassthru: the modifiers are not consulted
ShouldPassthru_Unconditional(flags, p) == IsScalarfsPath(p) \/ HasExplicitProtocol(p)

\* should_passthru
ShouldPassthru(flags, p) ==
    \/ HasFlag(flags, "PASSTHRU_SCALARFS") /\ IsScalarfsPath(p)
    \/ HasFlag(flags, "PASSTHRU_EXPLICIT_FS") /\ HasExplicitProtocol(p)

\* the inner loop of the prepend step for one prefix
RECURSIVE PrependOne(_, _, _)
PrependOne(prefix, resolved_paths, flags) ==
    IF resolved_paths = <<>> THEN <<>>
    ELSE <<IF ShouldPassthru(flags, Head(resolved_paths)) THEN Head(resolved_paths)
           ELSE JoinPaths(prefix, Head(resolved_paths))>>
         \o PrependOne(prefix, Tail(resolved_paths), flags)

\* faulty variant of PrependPaths: candidates outer, prefixes inner
PrependPaths_CandidatesOuter(prepend_values, resolved_paths, flags) ==
    LET P == Len(prepend_values)
    IN  [k \in 1..(P * Len(resolved_paths)) |->
            LET p == resolved_paths[((k - 1) \div P) + 1]
            IN  IF ShouldPassthru(flags, p) THEN p
                ELSE JoinPaths(prepend_values[((k - 1) % P) + 1], p)]

\* new_paths of the prepend step
RECURSIVE PrependPaths(_, _, _)
PrependPaths(prepend_values, resolved_paths, flags) ==
    IF prepend_values = <<>> THEN <<>>
    ELSE PrependOne(Head(prepend_values), resolved_paths, flags)
         \o PrependPaths(Tail(prepend_values), resolved_paths, flags)

\* the inner loop of the append step for one path
RECURSIVE AppendOne(_, _)
AppendOne(p, append_values) ==
    IF append_values = <<>> THEN <<>>
    ELSE <<JoinPaths(p, Head(append_values))>> \o AppendOne(p, Tail(append_values))

\* new_paths of the append step
RECURSIVE AppendPaths(_, _, _)
AppendPaths(resolved_paths, append_values, flags) ==
    IF resolved_paths = <<>> THEN <<>>
    ELSE (IF ShouldPassthru(flags, Head(resolved_paths)) THEN <<Head(resolved_paths)>>
          ELSE AppendOne(Head(resolved_paths), append_values))
         \o AppendPaths(Tail(resolved_paths), append_values, flags)

\* DataURIFileSystem::CanHandleFile
DataCanHandleFile(fpath) ==
    StartsWith(fpath, PfxData) \/ StartsWith(fpath, PfxVarchar) \/ StartsWith(fpath, PfxBlob)

\* number of c in s
CountOf(s, c) == Cardinality({i \in 1..Len(s) : s[i] = c})

\* the elements of a set of strings in ascending order
RECURSIVE SortedSeqOf(_)
SortedSeqOf(S) ==
    IF S = {} THEN <<>>
    ELSE LET m == CHOOSE x \in S : \A y \in S : y = x \/ LexLess(x, y)
         IN  <<m>> \o SortedSeqOf(S \ {m})

\* parent_fs.FileExists(path, nullptr): the host dispatcher hands inline
\* content URIs to the data URI filesystem and plain paths to the backend;
\* fl maps the paths of the existing backend files to their contents
HostFileExists(p, fl) == IF DataCanHandleFile(p) THEN TRUE ELSE p \in DOMAIN fl

\* parent_fs.Glob(pattern, nullptr) of the backend: the existing files that
\* match component by component, in ascending order
HostGlob(pattern, fl) ==
    SortedSeqOf({f \in DOMAIN fl : GlobMatch(f, pattern) /\ CountOf(f, SLASH) = CountOf(pattern, SLASH)})

\* level 2: glob expansion within the resolved paths
RECURSIVE ExpandPaths(_, _, _)
ExpandPaths(resolved_paths, no_glob, fl) ==
    IF resolved_paths = <<>> THEN <<>>
    ELSE (IF ~no_glob /\ HasGlob(Head(resolved_paths)) THEN HostGlob(Head(resolved_paths), fl)
          ELSE <<Head(resolved_paths)>>)
         \o ExpandPaths(Tail(resolved_paths), no_glob, fl)

\* the search modifier: the first entry that exists, or nothing
RECURSIVE SearchFirst(_, _)
SearchFirst(result, fl) ==
    IF result = <<>> THEN <<>>
    ELSE IF HostFileExists(Head(result), fl) THEN <<Head(result)>>
    ELSE SearchFirst(Tail(result), fl)

\* the ignore-missing modifier: the entries that exist
RECURSIVE ExistingOnly(_, _)
ExistingOnly(result, fl) ==
    IF result = <<>> THEN <<>>
    ELSE (IF HostFileExists(Head(result), fl) THEN <<Head(result)>> ELSE <<>>)
         \o ExistingOnly(Tail(result), fl)

\* level 1: the loop over config.user_variables, entries taken in the order
\* names, those whose name matches the pattern giving their paths
RECURSIVE NameGlobPaths(_, _, _)
NameGlobPaths(pattern, st, names) ==
    IF names = <<>> THEN <<>>
    ELSE (IF st[Head(names)] # Absent /\ GlobMatch(Head(names), pattern)
          THEN ExtractPathsFromValue(st[Head(names)]).paths
          ELSE <<>>)
         \o NameGlobPaths(pattern, st, Tail(names))

\* faulty variant of GlobFinish: the candidates are sorted before the search
GlobFinish_SortFirst(flags, result, fl) ==
    IF HasFlag(flags, "SEARCH") THEN SearchFirst(SortPaths(result), fl)
    ELSE SortPaths(IF HasFlag(flags, "IGNORE_MISSING") THEN ExistingOnly(result, fl)
                   ELSE result)

\* Glob from the search modifier on: search returns before the filter and
\* the sort
GlobFinish(flags, result, fl) ==
    IF HasFlag(flags, "SEARCH") THEN SearchFirst(result, fl)
    ELSE SortPaths(IF HasFlag(flags, "IGNORE_MISSING") THEN ExistingOnly(result, fl)
                   ELSE result)

\* resolved_paths after the append step
GlobAppend(parsed, resolved_paths, st) ==
    LET append_values == IF HasFlag(parsed.flags, "APPEND")
                         THEN ResolveValue(parsed.append_value, st)
                         ELSE Ok(<<>>)
    IN  IF ~append_values.ok THEN append_values
        ELSE IF append_values.val # <<>>
        THEN Ok(AppendPaths(resolved_paths, append_values.val, parsed.flags))
        ELSE Ok(resolved_paths)

\* resolved_paths after the prepend step
GlobPrepend(parsed, resolved_paths, st) ==
    LET prepend_values == IF HasFlag(parsed.flags, "PREPEND")
                          THEN ResolveValue(parsed.prepend_value, st)
                          ELSE Ok(<<>>)
    IN  IF ~prepend_values.ok THEN prepend_values
        ELSE IF prepend_values.val # <<>>
        THEN Ok(PrependPaths(prepend_values.val, resolved_paths, parsed.flags))
        ELSE Ok(resolved_paths)

\* the expanded candidates: resolved_paths after prepend, append and the
\* level-2 expansion, in the order Glob builds them
GlobCandidates(parsed, resolved_paths, st, fl) ==
    LET prepended == GlobPrepend(parsed, resolved_paths, st)
    IN  IF ~prepended.ok THEN prepended
        ELSE LET appended == GlobAppend(parsed, prepended.val, st)
             IN  IF ~appended.ok THEN appended
                 ELSE Ok(ExpandPaths(appended.val, HasFlag(parsed.flags, "NO_GLOB"), fl))

\* level 1 of Glob: whether the single variable is left unresolved (absent,
\* null or of a wrong type), and the resolved paths otherwise
GlobResolve(pattern, st, names) ==
    IF ~HasGlob(pattern)
    THEN LET result == Lookup(st, pattern)
         IN  IF result = Absent THEN [unresolved |-> TRUE, paths |-> <<>>]
             ELSE IF result = NullValue THEN [unresolved |-> TRUE, paths |-> <<>>]
             ELSE IF ~ExtractPathsFromValue(result).ok
             THEN [unresolved |-> TRUE, paths |-> <<>>]
             ELSE [unresolved |-> FALSE, paths |-> ExtractPathsFromValue(result).paths]
    ELSE [unresolved |-> FALSE, paths |-> NameGlobPaths(pattern, st, names)]

\* PathVariableFileSystem::Glob; names is the order in which the variable
\* map enumerates its entries, ctx whether the opener has a client context
PvGlob(path, st, names, fl, ctx) ==
    IF ~PvCanHandle(path) THEN Ok(<<>>)
    ELSE IF ~ctx THEN Ok(<<path>>)
    ELSE LET parsed == Parse(path)
             level1 == GlobResolve(parsed.variable_name, st, names)
             candidates == GlobCandidates(parsed, level1.paths, st, fl)
         IN  IF level1.unresolved THEN Ok(<<path>>)
             ELSE IF ~candidates.ok THEN candidates
             ELSE Ok(GlobFinish(parsed.flags, candidates.val, fl))

\* the local resolved_paths of Glob as it stands after level 1, after the
\* prepend step and after the append step; ok tells that all three were
\* reached without error
GlobSteps(path, st, names, ctx) ==
    IF ~PvCanHandle(path) \/ ~ctx
    THEN [op |-> "Glob", ok |-> FALSE, val |-> <<>>, err |-> "none",
          resolved |-> <<>>, prepended |-> <<>>, appended |-> <<>>]
    ELSE LET parsed == Parse(path)
             level1 == GlobResolve(parsed.variable_name, st, names)
             prepended == GlobPrepend(parsed, level1.paths, st)
             appended == IF prepended.ok THEN GlobAppend(parsed, prepended.val, st)
                         ELSE prepended
         IN  [op |-> "Glob",
              ok |-> ~level1.unresolved /\ prepended.ok /\ appended.ok,
              val |-> <<>>, err |-> "none",
              resolved |-> level1.paths,
              prepended |-> IF prepended.ok THEN prepended.val ELSE <<>>,
              appended |-> IF appended.ok THEN appended.val ELSE <<>>]

\* PathVariableFileSystem::GetPathFromVariable
GetPathFromVariable(var_name, st, ctx) ==
    IF ~ctx THEN Err("ContextUnavailable")
    ELSE LET result == Lookup(st, var_name)
         IN  IF result = Absent THEN Err("NotFound")
             ELSE IF result = NullValue THEN Err("NullValue")
             ELSE IF IsListType(result.type) THEN Err("TypeMismatch")
             ELSE IF ~IsPathType(result.type) THEN Err("TypeMismatch")
             ELSE Ok(ValueToString(result))

\* target_path.find_last_of("/\\"): 1-based index, 0 when there is none
LastSlash(s) ==
    IF \E i \in 1..Len(s) : IsSlash(s[i])
    THEN CHOOSE i \in 1..Len(s) : IsSlash(s[i]) /\ \A k \in (i + 1)..Len(s) : ~IsSlash(s[k])
    ELSE 0

\* faulty variant of ComputeTempPath: "tmp_" is put before the whole path
ComputeTempPath_BeforeAll(target_path) == StrTmp \o target_path

\* PathVariableFileSystem::ComputeTempPath
ComputeTempPath(target_path) ==
    LET sep_pos == LastSlash(target_path)
    IN  IF sep_pos = 0 THEN StrTmp \o target_path
        ELSE SubSeq(target_path, 1, sep_pos) \o StrTmp \o Substr(target_path, sep_pos)

\* PathVariableFileSystem::ResolvePath
ResolvePath(path, st, ctx) ==
    LET target_path == GetPathFromVariable(Parse(path).variable_name, st, ctx)
    IN  IF ~target_path.ok THEN target_path
        ELSE IF IsTempPath(path) THEN Ok(ComputeTempPath(target_path.val))
        ELSE target_path

\* parent_fs.OpenFile(path, flags, nullptr) for reading, the content of the
\* handle: inline content URIs are decoded, a plain path opens when the file
\* exists
HostOpenRead(p, fl) ==
    IF DataCanHandleFile(p)
    THEN (IF DataOpenContent(p, FALSE).ok THEN DataOpenContent(p, FALSE)
          ELSE Err("MalformedUri"))
    ELSE IF p \in DOMAIN fl THEN Ok(fl[p])
    ELSE Err("NotFound")

\* PathVariableFileSystem::OpenFile for reading: the outcome
PvOpenRead(path, st, ctx, fl) ==
    LET resolved_path == ResolvePath(path, st, ctx)
    IN  IF ~resolved_path.ok THEN resolved_path ELSE HostOpenRead(resolved_path.val, fl)

\* PathVariableFileSystem::FileExists
PvFileExists(filename, st, ctx, fl) ==
    IF ~PvCanHandle(filename) THEN FALSE
    ELSE LET resolved_path == ResolvePath(filename, st, ctx)
         IN  IF ~resolved_path.ok THEN FALSE
             ELSE HostFileExists(resolved_path.val, fl)

(***************************************************************************)
(* Existence probes and removal of the four handlers                       *)
(***************************************************************************)
PfxGzip == <<100, 101, 99, 111, 109, 112, 114, 101, 115, 115, 43, 103, 122, 58>>
PfxZstd == <<100, 101, 99, 111, 109, 112, 114, 101, 115, 115, 43, 122, 115, 116, 100, 58>>

\* DecompressFileSystem::ParseProtocol
ParseProtocol(path) ==
    IF StartsWith(path, PfxGzip)
    THEN [ok |-> TRUE, format |-> "GZIP", underlying_path |-> Substr(path, Len(PfxGzip))]
    ELSE IF StartsWith(path, PfxZstd)
    THEN [ok |-> TRUE, format |-> "ZSTD", underlying_path |-> Substr(path, Len(PfxZstd))]
    ELSE [ok |-> FALSE, format |-> "none", underlying_path |-> <<>>]

\* VariableFileSystem::FileExists
VarFileExists(filename, st, ctx) ==
    IF ~CanHandleFile(filename) THEN FALSE
    ELSE IF ~ctx THEN TRUE
    ELSE LET result == Lookup(st, ExtractVariableName(filename))
         IN  result # Absent /\ result # NullValue

\* DataURIFileSystem::FileExists
DataFileExists(filename) == DataCanHandleFile(filename)

\* DecompressFileSystem::FileExists
DecompressFileExists(filename, ctx, fl) ==
    LET parsed == ParseProtocol(filename)
    IN  IF ~parsed.ok THEN FALSE
        ELSE IF ~ctx THEN FALSE
        ELSE HostFileExists(parsed.underlying_path, fl)

\* parent_fs.RemoveFile(path, nullptr): inline content URIs are read-only, a
\* plain path is removed when the file exists
HostRemoveFile(p, fl) ==
    IF DataCanHandleFile(p) THEN Err("UnsupportedOperation")
    ELSE IF p \in DOMAIN fl THEN Ok([q \in DOMAIN fl \ {p} |-> fl[q]])
    ELSE Err("NotFound")

\* PathVariableFileSystem::RemoveFile: the outcome, val the files afterwards
PvRemoveFile(filename, st, ctx, fl) ==
    LET resolved_path == ResolvePath(filename, st, ctx)
    IN  IF ~resolved_path.ok THEN resolved_path ELSE HostRemoveFile(resolved_path.val, fl)

(***************************************************************************)
(* Decompression delegate (decompress_filesystem.cpp) and the in-memory    *)
(* read handle (memory_file_handle.hpp)                                    *)
(***************************************************************************)
\* GZipFileSystem::CheckIsZip: at least the ten bytes of a header, the
\* identification bytes 0x1F 0x8B and the deflate method
CheckIsZip(data) ==
    Len(data) >= 10 /\ data[1] = 31 /\ data[2] = 139 /\ data[3] = 8

\* the four bytes memcpy lays 0xFD2FB528 out in on a little-endian host
ZstdMagic == <<40, 181, 47, 253>>

\* what the codec library answers on a content: the frame content size
\* ("error", "unknown" or "known"), whether the decode routine succeeds, and
\* the plain content it then produces
LibAnswers == [frame : {"error", "unknown", "known"}, ok : BOOLEAN, plain : {<<>>, <<104, 105>>}]

Decoded(lib) ==
    [ok |-> lib.ok, val |-> IF lib.ok THEN lib.plain ELSE <<>>,
     err |-> IF lib.ok THEN "none" ELSE "DecodeError", decoded |-> TRUE]

NotDecoded(ok, err) == [ok |-> ok, val |-> <<>>, err |-> err, decoded |-> FALSE]

\* faulty variant of DecompressContent: the zstd magic is not examined
DecompressContent_NoMagic(compressed, format, lib) ==
    IF format = "GZIP"
    THEN IF compressed = <<>> THEN NotDecoded(TRUE, "none")
         ELSE IF ~CheckIsZip(compressed) THEN NotDecoded(FALSE, "FormatError")
         ELSE Decoded(lib)
    ELSE IF compressed = <<>> THEN NotDecoded(TRUE, "none")
         ELSE IF lib.frame = "error" THEN NotDecoded(FALSE, "FormatError")
         ELSE Decoded(lib)

\* DecompressFileSystem::DecompressContent
DecompressContent(compressed, format, lib) ==
    IF format = "GZIP"
    THEN IF compressed = <<>> THEN NotDecoded(TRUE, "none")
         ELSE IF ~CheckIsZip(compressed) THEN NotDecoded(FALSE, "FormatError")
         ELSE Decoded(lib)
    ELSE IF compressed = <<>> THEN NotDecoded(TRUE, "none")
         ELSE IF Len(compressed) < 4 THEN NotDecoded(FALSE, "FormatError")
         ELSE IF SubSeq(compressed, 1, 4) # ZstdMagic THEN NotDecoded(FALSE, "FormatError")
         ELSE IF lib.frame = "error" THEN NotDecoded(FALSE, "FormatError")
         ELSE Decoded(lib)

\* DecompressFileSystem::OpenFile: the outcome, val the content of the handle
DecompressOpen(path, forWriting, ctx, fl, lib) ==
    LET parsed == ParseProtocol(path)
        underlying == HostOpenRead(parsed.underlying_path, fl)
    IN  IF forWriting THEN NotDecoded(FALSE, "UnsupportedOperation")
        ELSE IF ~parsed.ok THEN NotDecoded(FALSE, "IO")
        ELSE IF ~ctx THEN NotDecoded(FALSE, "ContextUnavailable")
        ELSE IF ~underlying.ok THEN NotDecoded(FALSE, underlying.err)
        ELSE DecompressContent(underlying.val, parsed.format, lib)

\* faulty variant of BytesToRead: a location at or past the end is not
\* told apart
BytesToRead_NoEndCheck(nr_bytes, size, location) ==
    IF nr_bytes < size - location THEN nr_bytes ELSE size - location

\* bytes_to_read = MinValue<idx_t>(nr_bytes, data.size() - location), 0
\* when location >= data.size()
BytesToRead(nr_bytes, size, location) ==
    IF location >= size THEN 0
    ELSE IF nr_bytes < size - location THEN nr_bytes ELSE size - location

\* what memcpy(buffer, data.data() + location, bytes_to_read) copies
ReadBytes(data, nr_bytes, location) ==
    SubSeq(data, location + 1, location + BytesToRead(nr_bytes, Len(data), location))

(***************************************************************************)
(* State                                                                   *)
(***************************************************************************)
VARIABLES
    store,      \* the session's user variables: Keys -> value or Absent
    session,    \* whether the file opener carries a client context
    h,          \* the open variable handle (one at a time), or NoHandle
    call,       \* the last variable filesystem call and its outcome
    content,    \* the byte content handed to the conversion functions
    uri,        \* the URI last produced by an encoder or written literally
    uriSrc,     \* how uri was produced
    res,        \* the last decode of uri and its outcome
    order,      \* the order in which the variable map enumerates its names
    files,      \* the backend files: path -> content
    mh,         \* the open MemoryFileHandle (one at a time), or NoMem
    io          \* the last call on a path, its outcome and what it returned

vars == <<store, session, h, call, content, uri, uriSrc, res, order, files, mh, io>>
varVars == <<store, session, h, call>>
codecVars == <<content, uri, uriSrc, res>>
hostVars == <<order, files, mh, io>>

NoMem == [fs |-> "none", data |-> <<>>, position |-> 0]

\* a call and its outcome: nr_bytes and location are the arguments of a read,
\* out is a returned path list or the bytes copied, ret a returned boolean,
\* count a returned byte count, decoded whether a decode routine was invoked
NoIo == [op |-> "none", path |-> <<>>, nr_bytes |-> 0, location |-> 0, ok |-> TRUE,
         err |-> "none", out |-> <<>>, ret |-> FALSE, count |-> 0, decoded |-> FALSE]

Io(op, path) == [NoIo EXCEPT !.op = op, !.path = path]

IoErr(op, path, err) == [NoIo EXCEPT !.op = op, !.path = path, !.ok = FALSE, !.err = err]

(***************************************************************************)
(* Variable filesystem operations                                          *)
(***************************************************************************)
\* FileOpener::TryGetClientContext(opener) finds a context
HasContext == session = "context"

VarOpenFile(path, forWriting) ==
    /\ h.mode = "none"
    /\ LET var_name == ExtractVariableName(path)
           r == OpenReadResult(store[var_name])
           c == Call("OpenFile", path, "none")
       IN  IF ~HasContext
           THEN /\ h' = h
                /\ call' = [c EXCEPT !.err = "ContextUnavailable"]
           ELSE IF forWriting
           THEN /\ h' = [mode |-> "write", path |-> path, var_name |-> var_name,
                         buffer |-> <<>>, position |-> 0]
                /\ call' = c
           ELSE IF r.ok
           THEN /\ h' = [mode |-> "read", path |-> path, var_name |-> <<>>,
                         buffer |-> r.val, position |-> 0]
                /\ call' = c
           ELSE /\ h' = h
                /\ call' = [c EXCEPT !.err = r.err]
    /\ UNCHANGED <<store, session, codecVars, hostVars>>

\* faulty variant of VarWrite: the bytes are stored as they are written
VarWrite_Through(chunk) ==
    /\ h.mode = "write"
    /\ Len(h.buffer) + Len(chunk) <= MaxBuf
    /\ h' = [h EXCEPT !.buffer = h.buffer \o chunk,
                      !.position = Len(h.buffer \o chunk)]
    /\ store' = [store EXCEPT ![h.var_name] =
                     [type |-> "VARCHAR", data |-> h.buffer \o chunk]]
    /\ call' = Call("Write", h.path, "none")
    /\ UNCHANGED <<session, codecVars, hostVars>>

\* Write(handle, buffer, nr_bytes)
VarWrite(chunk) ==
    /\ h.mode = "write"
    /\ Len(h.buffer) + Len(chunk) <= MaxBuf
    /\ h' = [h EXCEPT !.buffer = h.buffer \o chunk,
                      !.position = Len(h.buffer \o chunk)]
    /\ call' = Call("Write", h.path, "none")
    /\ UNCHANGED <<store, session, codecVars, hostVars>>

\* Write(handle, buffer, nr_bytes, location)
VarWriteAt(chunk, location) ==
    /\ h.mode = "write"
    /\ location + Len(chunk) <= MaxBuf
    /\ h' = [h EXCEPT !.buffer = WriteAtBuffer(h.buffer, chunk, location)]
    /\ call' = Call("WriteAt", h.path, "none")
    /\ UNCHANGED <<store, session, codecVars, hostVars>>

VarSeek(location) ==
    /\ h.mode # "none"
    /\ h' = [h EXCEPT !.position = location]
    /\ call' = Call("Seek", h.path, "none")
    /\ UNCHANGED <<store, session, codecVars, hostVars>>

\* FileHandle::Close of the read and of the write handle
VarClose ==
    /\ h.mode # "none"
    /\ store' = IF h.mode = "write" THEN CloseStore(store, h.var_name, h.buffer)
                ELSE store
    /\ h' = NoHandle
    /\ call' = Call("Close", h.path, "none")
    /\ UNCHANGED <<session, codecVars, hostVars>>

VarRemoveFile(filename) ==
    /\ store' = IF HasContext
                THEN [store EXCEPT ![ExtractVariableName(filename)] = Absent]
                ELSE store
    /\ call' = Call("RemoveFile", <<>>, "none")
    /\ UNCHANGED <<h, session, codecVars, hostVars>>

VarMoveFile(source, target) ==
    /\ LET c == Call("MoveFile", <<>>, "none")
       IN  IF ~CanHandleFile(source) \/ ~CanHandleFile(target)
           THEN store' = store /\ call' = [c EXCEPT !.err = "IO"]
           ELSE IF ~HasContext
           THEN store' = store /\ call' = [c EXCEPT !.err = "ContextUnavailable"]
           ELSE LET src_var == ExtractVariableName(source)
                    tgt_var == ExtractVariableName(target)
                IN  IF store[src_var] = Absent
                    THEN store' = store /\ call' = [c EXCEPT !.err = "NotFound"]
                    ELSE store' = MoveStore(store, src_var, tgt_var) /\ call' = c
    /\ UNCHANGED <<h, session, codecVars, hostVars>>

\* the user variables a session may hold when the first call arrives
InitStores == [Keys -> UserValues \cup {Absent}]

\* (source, target) pairs handed to MoveFile
MovePairs == (VarPaths \X VarPaths) \cup {<<OtherPath, VarPath(NameA)>>,
                                          <<VarPath(NameA), OtherPath>>}

Init ==
    /\ store \in InitStores
    /\ session \in {"context", "nocontext"}
    /\ h = NoHandle
    /\ call = NoCall
    /\ content = <<>>
    /\ uri = <<>>
    /\ uriSrc = "none"
    /\ res = [op |-> "none", ok |-> TRUE, val |-> <<>>, err |-> "none"]
    /\ order = <<>>
    /\ files = <<>>
    /\ mh = NoMem
    /\ io = NoIo

Next ==
    \/ \E p \in VarPaths, w \in BOOLEAN : VarOpenFile(p, w)
    \/ \E chunk \in Chunks : VarWrite(chunk)
    \/ \E chunk \in Chunks, location \in 0..MaxBuf : VarWriteAt(chunk, location)
    \/ \E location \in 0..MaxBuf : VarSeek(location)
    \/ VarClose
    \/ \E p \in VarPaths : VarRemoveFile(p)
    \/ \E m \in MovePairs : VarMoveFile(m[1], m[2])

Spec == Init /\ [][Next]_vars

(***************************************************************************)
(* Conversion functions and the data URI filesystem as operations on one   *)
(* content                                                                 *)
(***************************************************************************)
PfxDataComma == <<100, 97, 116, 97, 58, 44>>

\* n filler bytes
Pad(n) == [i \in 1..n |-> 97]

\* the contents the conversion functions are applied to: every short
\* string over RawBytes, and filler runs followed by a short tail
Contents ==
    SeqsUpTo(RawBytes, MaxLen)
    \cup {Pad(n) \o t : n \in 1..MaxPad, t \in SeqsUpTo(TailBytes, MaxTail)}

NoRes == [op |-> "none", ok |-> TRUE, val |-> <<>>, err |-> "none"]

Result(op, r) == [op |-> op, ok |-> r.ok, val |-> r.val, err |-> r.err]

\* to_data_uri / to_varchar_uri / to_blob_uri / to_scalarfs_uri on content
ToDataUri ==
    /\ uri' = EncodeDataUri(content)
    /\ uriSrc' = "to_data_uri"
    /\ res' = NoRes
    /\ UNCHANGED <<content, varVars, hostVars>>

ToVarcharUri ==
    /\ uri' = EncodeVarcharUri(content)
    /\ uriSrc' = "to_varchar_uri"
    /\ res' = NoRes
    /\ UNCHANGED <<content, varVars, hostVars>>

ToBlobUri ==
    /\ uri' = EncodeBlobUri(content)
    /\ uriSrc' = "to_blob_uri"
    /\ res' = NoRes
    /\ UNCHANGED <<content, varVars, hostVars>>

ToScalarfsUri ==
    /\ uri' = EncodeScalarfsUri(content)
    /\ uriSrc' = "to_scalarfs_uri"
    /\ res' = NoRes
    /\ UNCHANGED <<content, varVars, hostVars>>

\* a URI written by hand: a literal prefix followed by content as payload
LiteralUri(kind) ==
    /\ uri' = (IF kind = "literal_data" THEN PfxDataComma
               ELSE IF kind = "literal_varchar" THEN PfxVarchar
               ELSE PfxBlob) \o content
    /\ uriSrc' = kind
    /\ res' = NoRes
    /\ UNCHANGED <<content, varVars, hostVars>>

\* from_data_uri / from_varchar_uri / from_blob_uri / from_scalarfs_uri on uri
FromDataUri ==
    /\ res' = Result("from_data_uri", DecodeDataUri(uri))
    /\ UNCHANGED <<content, uri, uriSrc, varVars, hostVars>>

FromVarcharUri ==
    /\ res' = Result("from_varchar_uri", DecodeVarcharUri(uri))
    /\ UNCHANGED <<content, uri, uriSrc, varVars, hostVars>>

FromBlobUri ==
    /\ res' = Result("from_blob_uri", DecodeBlobUri(uri))
    /\ UNCHANGED <<content, uri, uriSrc, varVars, hostVars>>

FromScalarfsUri ==
    /\ res' = Result("from_scalarfs_uri", DecodeScalarfsUri(uri))
    /\ UNCHANGED <<content, uri, uriSrc, varVars, hostVars>>

\* DataURIFileSystem::OpenFile on uri; val is the content of the handle
DataOpenFile(forWriting) ==
    /\ uriSrc # "none"
    /\ res' = Result(IF forWriting THEN "open_write" ELSE "open_read",
                     DataOpenContent(uri, forWriting))
    /\ UNCHANGED <<content, uri, uriSrc, varVars, hostVars>>

InitCodec ==
    /\ store = [k \in Keys |-> Absent]
    /\ session = "context"
    /\ h = NoHandle
    /\ call = NoCall
    /\ content \in Contents
    /\ uri = <<>>
    /\ uriSrc = "none"
    /\ res = NoRes
    /\ order = <<>>
    /\ files = <<>>
    /\ mh = NoMem
    /\ io = NoIo

NextCodec ==
    \/ ToDataUri
    \/ ToVarcharUri
    \/ ToBlobUri
    \/ ToScalarfsUri
    \/ \E kind \in {"literal_data", "literal_varchar", "literal_blob"} : LiteralUri(kind)
    \/ FromDataUri
    \/ FromVarcharUri
    \/ FromBlobUri
    \/ FromScalarfsUri
    \/ \E w \in BOOLEAN : DataOpenFile(w)

SpecCodec == InitCodec /\ [][NextCodec]_vars

(***************************************************************************)
(* Path-variable resolution, probes and removal as operations on a session *)
(***************************************************************************)
\* longest list value of a variable
MaxList == 2

\* variable names d1 and d2; paths /a, /b, /s/a, /*, /r, /s; the inline
\* content URI data:,x, the URI data:x without a comma, and s3://b
NameD1 == <<100, 49>>
NameD2 == <<100, 50>>
PathA == <<47, 97>>
PathB == <<47, 98>>
PathSA == <<47, 115, 47, 97>>
PathStar == <<47, 42>>
DirR == <<47, 114>>
DirS == <<47, 115>>
UriX == <<100, 97, 116, 97, 58, 44, 120>>
UriNoComma == <<100, 97, 116, 97, 58, 120>>
UriS3 == <<115, 51, 58, 47, 47, 98>>

Varchar(s) == [type |-> "VARCHAR", data |-> s]
\* a list value keeps its elements in the field children
VarcharList(children) == [type |-> "VARCHAR[]", data |-> <<>>, children |-> children]
IntegerValue == [type |-> "INTEGER", data |-> <<52>>]

GlobNames == {NameD1, NameD2}

\* the values the variable d1 may hold
D1Values ==
    {Absent, NullValue, IntegerValue, [type |-> "INTEGER[]", data |-> <<>>, children |-> <<IntegerValue>>],
     Varchar(PathA), Varchar(PathStar), Varchar(UriX), Varchar(UriS3),
     VarcharList(<<NullValue, Varchar(PathA)>>),
     VarcharList(<<Varchar(UriX), Varchar(PathA)>>)}
    \cup {VarcharList(l) : l \in SeqsUpTo({Varchar(PathA), Varchar(PathB)}, MaxList) \ {<<>>}}

\* the values the variable d2 may hold
D2Values ==
    {Absent, Varchar(PathB), Varchar(<<>>), VarcharList(<<Varchar(DirR), Varchar(DirS)>>)}

\* the backend files a session may see; their content plays no part here
HostPaths == {PathA, PathB, PathSA}
HostFiles == {[p \in S |-> <<>>] : S \in SUBSET HostPaths}

\* the orders in which a map may enumerate the names
Orders == {<<NameD1, NameD2>>, <<NameD2, NameD1>>}

\* modifier segments: "search:", "no-missing:", "no-glob:", "no-cache:",
\* "no-scalarfs:", "no-protocols:", "prepend!$d2:", "prepend!/r:",
\* "append!$d2:"
Seg(kw) == kw \o <<COLON>>
SegValue(kw, value) == kw \o <<BANG>> \o value \o <<COLON>>
RefD2 == <<DOLLAR>> \o NameD2

\* the modifier prefixes of the paths handed to Glob
GlobModifiers ==
    {<<>>, Seg(KwSearch), Seg(KwNoMissing), Seg(KwNoGlob), Seg(KwNoCache),
     Seg(KwSearch) \o Seg(KwNoMissing),
     SegValue(KwPrepend, RefD2), SegValue(KwPrepend, DirR),
     SegValue(KwAppend, RefD2),
     SegValue(KwPrepend, RefD2) \o Seg(KwNoScalarfs),
     SegValue(KwPrepend, RefD2) \o Seg(KwNoProtocols),
     SegValue(KwAppend, RefD2) \o Seg(KwNoScalarfs),
     SegValue(KwAppend, RefD2) \o Seg(KwNoProtocols),
     Seg(KwSearch) \o SegValue(KwPrepend, RefD2)}

\* "pathvariable:append:d1!/s", the suffix given after the name
DeferredAppendPath == PfxPathVariable \o Seg(KwAppend) \o NameD1 \o <<BANG>> \o DirS

\* the variable-name tokens: d1, and the patterns d* and *1
GlobTokens == {NameD1, <<100, 42>>, <<42, 49>>}

GlobPaths ==
    {PfxPathVariable \o m \o t : m \in GlobModifiers, t \in GlobTokens}
        \cup {PathA, DeferredAppendPath}

\* the paths handed to the probes of each handler
PvProbePaths == {PfxPathVariable \o NameD1, PfxTmpPathVariable \o NameD1, PathA}
VarProbePaths == {PfxVariable \o NameD1, PathA}
DataProbePaths == {UriX, UriNoComma, PathA}
DecompressProbePaths == {PfxGzip \o PathA, PathA}

\* the calls below are applied to a session state drawn by InitGlob, one
\* call to a behaviour: no call has been made yet
Fresh == io.op = "none"

PvGlobCall(path) ==
    /\ Fresh
    /\ LET r == PvGlob(path, store, order, files, HasContext)
       IN  io' = [Io("Glob", path) EXCEPT !.ok = r.ok, !.err = r.err, !.out = r.val]
    /\ res' = GlobSteps(path, store, order, HasContext)
    /\ UNCHANGED <<varVars, content, uri, uriSrc, order, files, mh>>

\* PathVariableFileSystem::OpenFile for reading; the handle is closed at once
PvOpenFile(path) ==
    /\ Fresh
    /\ LET r == PvOpenRead(path, store, HasContext, files)
       IN  io' = [Io("OpenFile", path) EXCEPT !.ok = r.ok, !.err = r.err]
    /\ UNCHANGED <<varVars, codecVars, order, files, mh>>

\* the reader opens the first entry that Glob returned, through the host
\* dispatcher: a pathvariable entry comes back to OpenFile, with the opener
PvOpenGlobbed ==
    /\ io.op = "Glob"
    /\ io.ok
    /\ io.out # <<>>
    /\ LET r == IF PvCanHandle(io.out[1])
                THEN PvOpenRead(io.out[1], store, HasContext, files)
                ELSE HostOpenRead(io.out[1], files)
       IN  io' = [io EXCEPT !.op = "OpenGlobbed", !.ok = r.ok, !.err = r.err]
    /\ UNCHANGED <<varVars, codecVars, order, files, mh>>

PvFileExistsCall(filename) ==
    /\ Fresh
    /\ io' = [Io("PvFileExists", filename) EXCEPT
                 !.ret = PvFileExists(filename, store, HasContext, files)]
    /\ UNCHANGED <<varVars, codecVars, order, files, mh>>

VarFileExistsCall(filename) ==
    /\ Fresh
    /\ io' = [Io("VarFileExists", filename) EXCEPT
                 !.ret = VarFileExists(filename, store, HasContext)]
    /\ UNCHANGED <<varVars, codecVars, order, files, mh>>

DataFileExistsCall(filename) ==
    /\ Fresh
    /\ io' = [Io("DataFileExists", filename) EXCEPT !.ret = DataFileExists(filename)]
    /\ UNCHANGED <<varVars, codecVars, order, files, mh>>

DecompressFileExistsCall(filename) ==
    /\ Fresh
    /\ io' = [Io("DecompressFileExists", filename) EXCEPT
                 !.ret = DecompressFileExists(filename, HasContext, files)]
    /\ UNCHANGED <<varVars, codecVars, order, files, mh>>

\* PathVariableFileSystem::TryRemoveFile
PvTryRemoveFile(filename) ==
    /\ Fresh
    /\ LET r == PvRemoveFile(filename, store, HasContext, files)
       IN  /\ files' = IF r.ok THEN r.val ELSE files
           /\ io' = [Io("PvTryRemoveFile", filename) EXCEPT !.ret = r.ok]
    /\ UNCHANGED <<varVars, codecVars, order, mh>>

\* VariableFileSystem::TryRemoveFile
VarTryRemoveFile(filename) ==
    /\ Fresh
    /\ store' = IF HasContext /\ ExtractVariableName(filename) \in DOMAIN store
                THEN [store EXCEPT ![ExtractVariableName(filename)] = Absent]
                ELSE store
    /\ io' = [Io("VarTryRemoveFile", filename) EXCEPT !.ret = TRUE]
    /\ UNCHANGED <<session, h, call, codecVars, order, files, mh>>

\* DataURIFileSystem::TryRemoveFile
DataTryRemoveFile(filename) ==
    /\ Fresh
    /\ io' = Io("DataTryRemoveFile", filename)
    /\ UNCHANGED <<varVars, codecVars, order, files, mh>>

\* DecompressFileSystem::TryRemoveFile
DecompressTryRemoveFile(filename) ==
    /\ Fresh
    /\ io' = Io("DecompressTryRemoveFile", filename)
    /\ UNCHANGED <<varVars, codecVars, order, files, mh>>

InitGlob ==
    /\ \/ /\ session = "context"
          /\ store \in [GlobNames -> D1Values \cup D2Values]
          /\ store[NameD1] \in D1Values
          /\ store[NameD2] \in D2Values
          /\ order \in Orders
          /\ files \in HostFiles
       \/ /\ session = "nocontext"
          /\ store = [n \in GlobNames |-> Varchar(PathA)]
          /\ order = <<NameD1, NameD2>>
          /\ files = [p \in {PathA} |-> <<>>]
    /\ h = NoHandle
    /\ call = NoCall
    /\ content = <<>>
    /\ uri = <<>>
    /\ uriSrc = "none"
    /\ res = NoRes
    /\ mh = NoMem
    /\ io = NoIo

NextGlob ==
    \/ \E p \in GlobPaths : PvGlobCall(p)
    \/ \E p \in PvProbePaths : PvOpenFile(p)
    \/ PvOpenGlobbed
    \/ \E p \in PvProbePaths : PvFileExistsCall(p)
    \/ \E p \in VarProbePaths : VarFileExistsCall(p)
    \/ \E p \in DataProbePaths : DataFileExistsCall(p)
    \/ \E p \in DecompressProbePaths : DecompressFileExistsCall(p)
    \/ \E p \in PvProbePaths : PvTryRemoveFile(p)
    \/ \E p \in VarProbePaths : VarTryRemoveFile(p)
    \/ \E p \in DataProbePaths : DataTryRemoveFile(p)
    \/ \E p \in DecompressProbePaths : DecompressTryRemoveFile(p)

SpecGlob == InitGlob /\ [][NextGlob]_vars

(***************************************************************************)
(* Read-only handles: inline content URIs, decompressed content and the    *)
(* read handle of a variable                                               *)
(***************************************************************************)
\* largest byte count asked of a Read, and largest location of a Seek
MaxRead == 3
MaxSeek == 3

\* data+varchar:hi and data+blob:h
UriVarcharHi == PfxVarchar \o <<104, 105>>
UriBlobH == PfxBlob \o <<104>>
DataPaths == {UriX, UriVarcharHi, UriBlobH, UriNoComma}

\* decompress+gz:/a, decompress+zstd:/a, and decompress+gz:/b
DecompressPaths == {PfxGzip \o PathA, PfxZstd \o PathA, PfxGzip \o PathB}

\* contents of the backend file /a: empty, a gzip header, its first two
\* bytes, a header with another method, the zstd magic followed by a byte,
\* its first three bytes, and the magic in reverse order
CompressedContents ==
    {<<>>, <<31, 139, 8, 0, 0, 0, 0, 0, 0, 3>>, <<31, 139>>,
     <<31, 139, 9, 0, 0, 0, 0, 0, 0, 3>>,
     ZstdMagic \o <<0>>, <<40, 181, 47>>, <<253, 47, 181, 40>>}

\* the variable a holds the text hi, no other variable is set
MemStore == [k \in Keys |-> IF k = NameA THEN [type |-> "VARCHAR", data |-> <<104, 105>>]
                            ELSE Absent]

\* DataURIFileSystem::OpenFile
DataOpenHandle(path, forWriting) ==
    /\ mh.fs = "none"
    /\ LET r == DataOpenContent(path, forWriting)
           op == IF forWriting THEN "DataOpenWrite" ELSE "DataOpenRead"
       IN  /\ mh' = IF r.ok THEN [fs |-> "data", data |-> r.val, position |-> 0] ELSE mh
           /\ io' = [Io(op, path) EXCEPT !.ok = r.ok, !.err = r.err]
    /\ UNCHANGED <<varVars, codecVars, order, files>>

\* DecompressFileSystem::OpenFile
DecompressOpenFile(path, forWriting, lib) ==
    /\ mh.fs = "none"
    /\ LET r == DecompressOpen(path, forWriting, HasContext, files, lib)
           op == IF forWriting THEN "DecompressOpenWrite" ELSE "DecompressOpenRead"
       IN  /\ mh' = IF r.ok THEN [fs |-> "decompress", data |-> r.val, position |-> 0]
                    ELSE mh
           /\ io' = [Io(op, path) EXCEPT !.ok = r.ok, !.err = r.err, !.decoded = r.decoded]
    /\ UNCHANGED <<varVars, codecVars, order, files>>

\* Read(handle, buffer, nr_bytes) of DataURIFileSystem, DecompressFileSystem
\* and VariableFileSystem, the three alike
MemRead(nr_bytes) ==
    /\ mh.fs # "none"
    /\ LET bytes_to_read == BytesToRead(nr_bytes, Len(mh.data), mh.position)
       IN  /\ mh' = [mh EXCEPT !.position = mh.position + bytes_to_read]
           /\ io' = [Io("Read", <<>>) EXCEPT
                        !.nr_bytes = nr_bytes,
                        !.out = ReadBytes(mh.data, nr_bytes, mh.position),
                        !.count = bytes_to_read]
    /\ UNCHANGED <<varVars, codecVars, order, files>>

\* Read(handle, buffer, nr_bytes, location) of the same
MemReadAt(nr_bytes, location) ==
    /\ mh.fs # "none"
    /\ io' = [Io("ReadAt", <<>>) EXCEPT
                 !.nr_bytes = nr_bytes, !.location = location,
                 !.out = ReadBytes(mh.data, nr_bytes, location)]
    /\ UNCHANGED <<varVars, codecVars, order, files, mh>>

\* Seek(handle, location) of the same
MemSeek(location) ==
    /\ mh.fs # "none"
    /\ mh' = [mh EXCEPT !.position = location]
    /\ io' = [Io("Seek", <<>>) EXCEPT !.location = location]
    /\ UNCHANGED <<varVars, codecVars, order, files>>

\* MemoryFileHandle::Close
MemClose ==
    /\ mh.fs # "none"
    /\ mh' = NoMem
    /\ io' = Io("Close", <<>>)
    /\ UNCHANGED <<varVars, codecVars, order, files>>

\* faulty variant of MemWrite: the bytes are appended to the content
MemWrite_Appends(chunk) ==
    /\ mh.fs \in {"data", "decompress"}
    /\ Len(mh.data) + Len(chunk) <= MaxRead
    /\ mh' = [mh EXCEPT !.data = mh.data \o chunk]
    /\ io' = Io("Write", <<>>)
    /\ UNCHANGED <<varVars, codecVars, order, files>>

\* Write(handle, buffer, nr_bytes) of DataURIFileSystem and DecompressFileSystem
MemWrite(chunk) ==
    /\ mh.fs \in {"data", "decompress"}
    /\ io' = IoErr("Write", <<>>, "UnsupportedOperation")
    /\ UNCHANGED <<varVars, codecVars, order, files, mh>>

\* Write(handle, buffer, nr_bytes, location) of the same
MemWriteAt(chunk, location) ==
    /\ mh.fs \in {"data", "decompress"}
    /\ io' = [IoErr("WriteAt", <<>>, "UnsupportedOperation") EXCEPT !.location = location]
    /\ UNCHANGED <<varVars, codecVars, order, files, mh>>

\* DataURIFileSystem::RemoveFile
DataRemoveFile(filename) ==
    /\ io' = IoErr("DataRemoveFile", filename, "UnsupportedOperation")
    /\ UNCHANGED <<varVars, codecVars, order, files, mh>>

\* DecompressFileSystem::RemoveFile
DecompressRemoveFile(filename) ==
    /\ io' = IoErr("DecompressRemoveFile", filename, "UnsupportedOperation")
    /\ UNCHANGED <<varVars, codecVars, order, files, mh>>

\* VariableFileSystem::OpenFile for reading: the read handle holds the
\* content and a position as the memory handle does
VarOpenHandle(path) ==
    /\ mh.fs = "none"
    /\ LET r == IF ~HasContext THEN Err("ContextUnavailable")
                ELSE OpenReadResult(Lookup(store, ExtractVariableName(path)))
       IN  /\ mh' = IF r.ok THEN [fs |-> "variable", data |-> r.val, position |-> 0] ELSE mh
           /\ io' = [Io("VarOpenRead", path) EXCEPT !.ok = r.ok, !.err = r.err]
    /\ UNCHANGED <<varVars, codecVars, order, files>>

InitMem ==
    /\ session \in {"context", "nocontext"}
    /\ store = MemStore
    /\ h = NoHandle
    /\ call = NoCall
    /\ content = <<>>
    /\ uri = <<>>
    /\ uriSrc = "none"
    /\ res = NoRes
    /\ order = <<>>
    /\ files \in {[p \in {PathA} |-> c] : c \in CompressedContents}
    /\ mh = NoMem
    /\ io = NoIo

NextMem ==
    \/ \E p \in DataPaths, w \in BOOLEAN : DataOpenHandle(p, w)
    \/ \E p \in DecompressPaths, w \in BOOLEAN, lib \in LibAnswers : DecompressOpenFile(p, w, lib)
    \/ \E n \in 0..MaxRead : MemRead(n)
    \/ \E n \in 0..MaxRead, location \in 0..MaxSeek : MemReadAt(n, location)
    \/ \E location \in 0..MaxSeek : MemSeek(location)
    \/ MemClose
    \/ \E chunk \in Chunks : MemWrite(chunk)
    \/ \E chunk \in Chunks, location \in 0..MaxSeek : MemWriteAt(chunk, location)
    \/ \E p \in DataPaths : DataRemoveFile(p)
    \/ \E p \in DecompressPaths : DecompressRemoveFile(p)
    \/ \E p \in DataProbePaths : DataTryRemoveFile(p)
    \/ \E p \in DecompressProbePaths : DecompressTryRemoveFile(p)
    \/ \E p \in {VarPath(NameA), TmpPath(NameA)} : VarOpenHandle(p)

SpecMem == InitMem /\ [][NextMem]_vars

(***************************************************************************)
(* The write handle of a variable, each call recorded with its arguments,  *)
(* and the stage-then-publish pipeline on the name a                       *)
(***************************************************************************)
\* what a staging variable left over by an earlier pipeline holds
Leftover == [type |-> "VARCHAR", data |-> <<104>>]

\* Write(handle, buffer, nr_bytes) of VariableFileSystem
VarWriteCall(chunk) ==
    /\ h.mode = "write"
    /\ Len(h.buffer) + Len(chunk) <= MaxBuf
    /\ h' = [h EXCEPT !.buffer = h.buffer \o chunk,
                      !.position = Len(h.buffer \o chunk)]
    /\ call' = Call("Write", h.path, "none")
    /\ io' = [Io("Write", h.path) EXCEPT
                 !.nr_bytes = Len(chunk), !.out = chunk, !.count = Len(chunk)]
    /\ UNCHANGED <<store, session, codecVars, order, files, mh>>

\* Write(handle, buffer, nr_bytes, location) of VariableFileSystem
VarWriteAtCall(chunk, location) ==
    /\ h.mode = "write"
    /\ location + Len(chunk) <= MaxBuf
    /\ h' = [h EXCEPT !.buffer = WriteAtBuffer(h.buffer, chunk, location)]
    /\ call' = Call("WriteAt", h.path, "none")
    /\ io' = [Io("WriteAt", h.path) EXCEPT
                 !.nr_bytes = Len(chunk), !.location = location, !.out = chunk]
    /\ UNCHANGED <<store, session, codecVars, order, files, mh>>

\* VariableWriteHandle::Close; out records the buffer of the handle
VarCloseCall ==
    /\ h.mode = "write"
    /\ store' = CloseStore(store, h.var_name, h.buffer)
    /\ h' = NoHandle
    /\ call' = Call("Close", h.path, "none")
    /\ io' = [Io("Close", h.path) EXCEPT !.out = h.buffer]
    /\ UNCHANGED <<session, codecVars, order, files, mh>>

\* MoveFile(tmp_variable:a, variable:a) once the staging handle is closed;
\* out keeps the buffer the handle had
VarPublish ==
    /\ io.op = "Close"
    /\ io.path = TmpPath(NameA)
    /\ LET src_var == ExtractVariableName(TmpPath(NameA))
           tgt_var == ExtractVariableName(VarPath(NameA))
       IN  IF ~HasContext
           THEN /\ store' = store
                /\ call' = Call("MoveFile", <<>>, "ContextUnavailable")
                /\ io' = [io EXCEPT !.op = "MoveFile", !.ok = FALSE,
                                    !.err = "ContextUnavailable"]
           ELSE IF store[src_var] = Absent
           THEN /\ store' = store
                /\ call' = Call("MoveFile", <<>>, "NotFound")
                /\ io' = [io EXCEPT !.op = "MoveFile", !.ok = FALSE, !.err = "NotFound"]
           ELSE /\ store' = MoveStore(store, src_var, tgt_var)
                /\ call' = Call("MoveFile", <<>>, "none")
                /\ io' = [io EXCEPT !.op = "MoveFile"]
    /\ UNCHANGED <<h, session, codecVars, order, files, mh>>

InitWrite ==
    /\ store \in [Keys -> {Absent, Leftover}]
    /\ session = "context"
    /\ h = NoHandle
    /\ call = NoCall
    /\ content = <<>>
    /\ uri = <<>>
    /\ uriSrc = "none"
    /\ res = NoRes
    /\ order = <<>>
    /\ files = <<>>
    /\ mh = NoMem
    /\ io = NoIo

NextWrite ==
    \/ \E p \in {TmpPath(NameA), VarPath(NameA)} : VarOpenFile(p, TRUE)
    \/ \E chunk \in Chunks : VarWriteCall(chunk)
    \/ \E chunk \in Chunks, location \in 0..MaxBuf : VarWriteAtCall(chunk, location)
    \/ \E location \in 0..MaxBuf : VarSeek(location)
    \/ VarCloseCall
    \/ VarPublish

SpecWrite == InitWrite /\ [][NextWrite]_vars

(***************************************************************************)
(* Single-reference resolution of pathvariable: and tmp_pathvariable:,     *)
(* over a backend that holds target files and temp files                   *)
(***************************************************************************)
\* parent_fs.MoveFile(source, target, nullptr): the files afterwards
HostMoveFile(source, target, fl) ==
    IF DataCanHandleFile(source) \/ DataCanHandleFile(target)
    THEN Err("UnsupportedOperation")
    ELSE IF source \notin DOMAIN fl THEN Err("NotFound")
    ELSE Ok([q \in (DOMAIN fl \ {source}) \cup {target} |->
                IF q = target THEN fl[source] ELSE fl[q]])

\* PathVariableFileSystem::MoveFile: the outcome, val the files afterwards
PvMoveFile(source, target, st, ctx, fl) ==
    IF ~PvCanHandle(source) \/ ~PvCanHandle(target) THEN Err("IOException")
    ELSE LET source_path == ResolvePath(source, st, ctx)
             target_path == ResolvePath(target, st, ctx)
         IN  IF ~source_path.ok THEN source_path
             ELSE IF ~target_path.ok THEN target_path
             ELSE HostMoveFile(source_path.val, target_path.val, fl)

PvMoveFileCall(source, target) ==
    /\ Fresh
    /\ LET r == PvMoveFile(source, target, store, HasContext, files)
       IN  /\ files' = IF r.ok THEN r.val ELSE files
           /\ io' = [Io("MoveFile", source) EXCEPT !.ok = r.ok, !.err = r.err, !.out = target]
    /\ UNCHANGED <<varVars, codecVars, order, mh>>

\* target paths /a, /s/a, a and s\a, and the temp paths /tmp_a, /s/tmp_a,
\* tmp_a and s\tmp_a
RelA == <<97>>
WinSA == <<115, BS, 97>>
TmpOfA == <<SLASH>> \o StrTmp \o <<97>>
TmpOfSA == DirS \o <<SLASH>> \o StrTmp \o <<97>>
TmpOfRelA == StrTmp \o <<97>>
TmpOfWinSA == <<115, BS>> \o StrTmp \o <<97>>
TempTargets == {PathA, PathSA, RelA, WinSA}
TempFiles == {TmpOfA, TmpOfSA, TmpOfRelA, TmpOfWinSA}

\* a temp file holds the byte 't', a target file is empty
TempBackends ==
    {[p \in S |-> IF p \in TempFiles THEN <<116>> ELSE <<>>] :
        S \in SUBSET (TempTargets \cup TempFiles)}

PvPath == PfxPathVariable \o NameD1
PvTmpPath == PfxTmpPathVariable \o NameD1
TempMovePairs == {<<PvTmpPath, PvPath>>, <<PvPath, PvTmpPath>>, <<PathA, PvPath>>}

InitTemp ==
    /\ session = "context"
    /\ store \in [GlobNames -> {Absent} \cup {Varchar(t) : t \in TempTargets}]
    /\ store[NameD2] = Absent
    /\ order = <<NameD1, NameD2>>
    /\ files \in TempBackends
    /\ h = NoHandle
    /\ call = NoCall
    /\ content = <<>>
    /\ uri = <<>>
    /\ uriSrc = "none"
    /\ res = NoRes
    /\ mh = NoMem
    /\ io = NoIo

NextTemp ==
    \/ \E p \in {PvPath, PvTmpPath} : PvOpenFile(p)
    \/ \E p \in {PvPath, PvTmpPath} : PvFileExistsCall(p)
    \/ \E p \in {PvPath, PvTmpPath} : PvTryRemoveFile(p)
    \/ \E m \in TempMovePairs : PvMoveFileCall(m[1], m[2])

SpecTemp == InitTemp /\ [][NextTemp]_vars

(***************************************************************************)
(* Streaming zstd decompression (DecompressContent, content size unknown), *)
(* one step per library call                                               *)
(***************************************************************************)
\* largest number of input units of a frame, and largest number of units
\* one ZSTD_decompressStream call consumes
MaxFrame == 4
MaxOut == 2

\* the plain content of a frame of `need` input units: each unit decodes to
\* one byte 'h'
FramePlain(need) == [i \in 1..need |-> 104]

\* the call before its first step. need is the length of the complete
\* frame and input_size the length of the input handed in (shorter for a
\* truncated frame); corrupt is the input unit at which the codec reports
\* an error, 0 when there is none; created and released count the calls of
\* ZSTD_createDStream that returned a context and of ZSTD_freeDStream
StreamStart(need, input_size, corrupt) ==
    [op |-> "DecompressContent", pc |-> "create", need |-> need,
     input_size |-> input_size, corrupt |-> corrupt, input_pos |-> 0,
     decompressed |-> <<>>, ret |-> 0, created |-> 0, released |-> 0,
     ok |-> TRUE, err |-> "none"]

Raise(s, err) == [s EXCEPT !.pc = "raised", !.ok = FALSE, !.err = err]

Free(s) == [s EXCEPT !.released = @ + 1]

\* ZSTD_createDStream: a context, or null
StreamCreate ==
    /\ io.pc = "create"
    /\ \/ io' = [io EXCEPT !.pc = "init", !.created = @ + 1]
       \/ io' = Raise(io, "CreateFailed")
    /\ UNCHANGED <<varVars, codecVars, order, files, mh>>

\* ZSTD_initDStream: on error the context is freed
StreamInit ==
    /\ io.pc = "init"
    /\ \/ io' = [io EXCEPT !.pc = "allocate"]
       \/ io' = Raise(Free(io), "InitFailed")
    /\ UNCHANGED <<varVars, codecVars, order, files, mh>>

\* string decompressed; make_unsafe_uniq_array<char>(out_buf_size): the
\* allocation succeeds or throws
StreamAllocate ==
    /\ io.pc = "allocate"
    /\ \/ io' = [io EXCEPT !.pc = "loop"]
       \/ io' = Raise(io, "bad_alloc")
    /\ UNCHANGED <<varVars, codecVars, order, files, mh>>

\* one iteration of the loop: ZSTD_decompressStream consumes k units; it
\* reports an error at the corrupt unit, else returns 0 when the frame is
\* complete and a positive hint when more input is needed; then
\* decompressed.append, which succeeds or throws
StreamDecompress ==
    /\ io.pc = "loop"
    /\ io.input_pos < io.input_size
    /\ \E k \in 1..MaxOut :
           /\ io.input_pos + k <= io.input_size
           /\ IF io.corrupt \in (io.input_pos + 1)..(io.input_pos + k)
              THEN io' = Raise(Free(io), "DecodeError")
              ELSE \/ io' = [io EXCEPT
                               !.input_pos = @ + k,
                               !.ret = IF io.input_pos + k = io.need THEN 0 ELSE 1,
                               !.decompressed = @ \o [i \in 1..k |-> 104]]
                   \/ io' = Raise([io EXCEPT !.input_pos = @ + k], "bad_alloc")
    /\ UNCHANGED <<varVars, codecVars, order, files, mh>>

\* the loop has ended: ZSTD_freeDStream; return decompressed
StreamFinish ==
    /\ io.pc = "loop"
    /\ ~(io.input_pos < io.input_size)
    /\ io' = [Free(io) EXCEPT !.pc = "returned"]
    /\ UNCHANGED <<varVars, codecVars, order, files, mh>>

InitStream ==
    /\ store = [k \in Keys |-> Absent]
    /\ session = "context"
    /\ h = NoHandle
    /\ call = NoCall
    /\ content = <<>>
    /\ uri = <<>>
    /\ uriSrc = "none"
    /\ res = NoRes
    /\ order = <<>>
    /\ files = <<>>
    /\ mh = NoMem
    /\ \E need \in 1..MaxFrame : \E input_size \in 1..need : \E corrupt \in 0..input_size :
           io = StreamStart(need, input_size, corrupt)

NextStream ==
    \/ StreamCreate
    \/ StreamInit
    \/ StreamAllocate
    \/ StreamDecompress
    \/ StreamFinish

SpecStream == InitStream /\ [][NextStream]_vars

(***************************************************************************)
(* The parser applied to paths built from segments                         *)
(***************************************************************************)
MaxSegs == 3

\* the segments the paths are built from: keywords with and without inline
\* values, names with and without a '!', and the empty segment
ParseTokens ==
    {KwNoGlob, KwSearch, KwAppend, KwPrepend,
     KwAppend \o <<BANG>> \o DirS, KwPrepend \o <<BANG, DOLLAR>> \o NameD2,
     NameD1, NameD1 \o <<BANG>> \o DirS, NameD1 \o <<BANG, DOLLAR>> \o NameD2, <<>>}

SegmentLists == UNION {[1..n -> ParseTokens] : n \in 1..MaxSegs}

ParsePaths ==
    {pfx \o JoinSegments(segs, 1) :
        pfx \in {PfxPathVariable, PfxTmpPathVariable}, segs \in SegmentLists}

\* PathVariableParser::Parse(path), the result kept in res
ParseCall(path) ==
    /\ Fresh
    /\ io' = Io("Parse", path)
    /\ res' = Parse(path)
    /\ UNCHANGED <<varVars, content, uri, uriSrc, order, files, mh>>

InitParse ==
    /\ store = [k \in Keys |-> Absent]
    /\ session = "context"
    /\ h = NoHandle
    /\ call = NoCall
    /\ content = <<>>
    /\ uri = <<>>
    /\ uriSrc = "none"
    /\ res = NoRes
    /\ order = <<>>
    /\ files = <<>>
    /\ mh = NoMem
    /\ io = NoIo

NextParse == \E path \in ParsePaths : ParseCall(path)

SpecParse == InitParse /\ [][NextParse]_vars

(***************************************************************************)
(* Properties                                                              *)
(***************************************************************************)
IsDecodeOf(fn) == res.op \in {fn, "open_read"}

\* C1: decoding the URI produced by each of the three literal encoders, with
\* the matching conversion function or by opening it through the data URI
\* filesystem, returns exactly the encoded content.
C1_RoundTrip ==
    /\ (uriSrc = "to_data_uri" /\ IsDecodeOf("from_data_uri"))
          => (res.ok /\ res.val = content)
    /\ (uriSrc = "to_varchar_uri" /\ IsDecodeOf("from_varchar_uri"))
          => (res.ok /\ res.val = content)
    /\ (uriSrc = "to_blob_uri" /\ IsDecodeOf("from_blob_uri"))
          => (res.ok /\ res.val = content)

\* a blob URI of a content with a backslash and a control byte was opened
\* through the filesystem and gave the content back
C1_Witness ==
    /\ uriSrc = "to_blob_uri"
    /\ res.op = "open_read"
    /\ \E i \in 1..Len(content) : content[i] = BS
    /\ \E i \in 1..Len(content) : content[i] = 1
    /\ res.val = content

\* a call of the staging pipeline of NameA other than the move: the open
\* of tmp_variable:N or a call on its handle
StagingStep ==
    /\ call'.path = TmpPath(NameA)
    /\ call'.op \in {"OpenFile", "Write", "WriteAt", "Seek", "Close"}

\* C2: no open-for-write, Write, Seek or Close on tmp_variable:N changes the
\* value stored under the published name N.
C2_StagingKeepsPublished == [][StagingStep => store'[NameA] = store[NameA]]_vars

\* a staging handle of NameA was closed with bytes in it while NameA holds
\* a user's value
C2_Witness ==
    /\ call = Call("Close", TmpPath(NameA), "none")
    /\ store[StrTmp \o NameA].type = "BLOB"
    /\ store[NameA].type = "INTEGER"

\* C3: open-for-write, Write, Write-at-offset and Seek leave every variable
\* of the store as it was.
C3_NoStoreChangeBeforeClose ==
    [][call'.op \in {"OpenFile", "Write", "WriteAt", "Seek"} => store' = store]_vars

\* bytes were written through a handle on a variable that holds a value
C3_Witness ==
    /\ call.op = "Write"
    /\ h.mode = "write"
    /\ h.buffer # <<>>
    /\ store[h.var_name] \in UserValues

\* what the claim says the store is after Close of a write handle
ClaimedCloseStore(st, var_name, buffer) ==
    IF Len(buffer) = 0 THEN st
    ELSE [k \in DOMAIN st |->
            IF k # var_name THEN st[k]
            ELSE [type |-> IF \E i \in 1..Len(buffer) : buffer[i] = 0
                           THEN "BLOB" ELSE "VARCHAR",
                  data |-> buffer]]

\* C4: Close of a write handle leaves the store unchanged when the buffer is
\* empty, and otherwise sets the target name to the buffer, binary if it has
\* a NUL byte and text if not, and changes no other variable.
C4_CloseFinalizes ==
    [][(call'.op = "Close" /\ h.mode = "write")
          => store' = ClaimedCloseStore(store, h.var_name, h.buffer)]_vars

\* a write handle on variable:a was closed and NameA now holds binary bytes
C4_Witness ==
    /\ call = Call("Close", VarPath(NameA), "none")
    /\ h = NoHandle
    /\ store[NameA].type = "BLOB"

\* C5 as stated: a successful MoveFile leaves under the target name the value
\* the source name held, for every pair of names (the same name included),
\* clears the source when the names differ, and fails without a change when
\* the source is absent.
C5_MoveAsStated ==
    [][\A m \in VarPaths \X VarPaths :
          (HasContext /\ VarMoveFile(m[1], m[2])) =>
             LET src == ExtractVariableName(m[1])
                 tgt == ExtractVariableName(m[2])
             IN  IF store[src] = Absent
                 THEN call'.err # "none" /\ store' = store
                 ELSE /\ call'.err = "none"
                      /\ store'[tgt] = store[src]
                      /\ (src # tgt => store'[src] = Absent)]_vars

\* the types of a stored value the claim lets open for reading
TextTypes == {"VARCHAR", "BLOB", "VARCHAR[]", "BLOB[]"}

\* the open for reading that just ended, with a session context
ReadOpened ==
    /\ call.op = "OpenFile"
    /\ HasContext
    /\ h.mode = "read" \/ call.err # "none"

\* C6 as stated: opening for reading fails with NotFound for an absent name,
\* NullValue for a null value, TypeMismatch for a value that is not text,
\* binary or a list of them, and succeeds otherwise.
C6_OpenReadAsStated ==
    ReadOpened =>
        LET v == store[ExtractVariableName(call.path)]
        IN  call.err = (IF v = Absent THEN "NotFound"
                        ELSE IF v = NullValue THEN "NullValue"
                        ELSE IF v.type \notin TextTypes THEN "TypeMismatch"
                        ELSE "none")

\* C6 amended: opening for reading fails with NotFound for an absent name and
\* NullValue for a null value, and succeeds for every other value whatever
\* its type, the content being the value's text rendering.
C6_OpenReadAmended ==
    ReadOpened =>
        LET v == store[ExtractVariableName(call.path)]
        IN  /\ call.err = (IF v = Absent THEN "NotFound"
                           ELSE IF v = NullValue THEN "NullValue"
                           ELSE "none")
            /\ call.err = "none" => (h.mode = "read" /\ h.path = call.path)
            /\ (call.err = "none" /\ v.type # "BLOB") => h.buffer = v.data

\* an integer variable was opened for reading
C6_Witness ==
    /\ ReadOpened
    /\ h.mode = "read"
    /\ store[ExtractVariableName(call.path)].type = "INTEGER"

\* the paths with the variable: prefix
PublishedPaths == {p \in VarPaths : StartsWith(p, PfxVariable)}

\* a Close of a staging handle or a RemoveFile of a staging path
StagingWriteOrRemove ==
    \/ call'.path = TmpPath(NameA) /\ call'.op = "Close"
    \/ VarRemoveFile(TmpPath(NameA))

\* C7 as stated: writing or removing a staging path changes no variable that
\* a variable: path reaches.
C7_StagingNeverCollides ==
    [][StagingWriteOrRemove =>
          \A p \in PublishedPaths :
              store'[ExtractVariableName(p)] = store[ExtractVariableName(p)]]_vars

\* a '%' of s that is not followed by two hex digits
MalformedPercent(s) ==
    \E i \in 1..Len(s) :
        /\ s[i] = PCT
        /\ ~(i + 2 <= Len(s) /\ IsHexDigit(s[i + 1]) /\ IsHexDigit(s[i + 2]))

\* C8 as stated: every decoder of a non-base64 data: URI fails when a '%' of
\* the payload is not followed by two hex digits.
C8_PercentStrict ==
    (uriSrc = "literal_data" /\ IsDecodeOf("from_data_uri") /\ MalformedPercent(content))
        => ~res.ok

\* s[i..] follows the blob-escape grammar
RECURSIVE WellFormedBlobFrom(_, _)
WellFormedBlobFrom(s, i) ==
    IF i > Len(s) THEN TRUE
    ELSE IF s[i] # BS THEN WellFormedBlobFrom(s, i + 1)
    ELSE IF i + 1 > Len(s) THEN FALSE
    ELSE IF s[i + 1] \in {BS, CHn, CHr, CHt, CH0} THEN WellFormedBlobFrom(s, i + 2)
    ELSE IF s[i + 1] = CHx
    THEN /\ i + 3 <= Len(s)
         /\ IsHexDigit(s[i + 2])
         /\ IsHexDigit(s[i + 3])
         /\ WellFormedBlobFrom(s, i + 4)
    ELSE FALSE

\* C9 as stated: both blob-escape decoders succeed exactly on the payloads
\* in which every backslash starts \\, \n, \r, \t, \0 or \x and two hex digits.
C9_BlobEscapeStrict ==
    (uriSrc = "literal_blob" /\ IsDecodeOf("from_blob_uri"))
        => (res.ok <=> WellFormedBlobFrom(content, 1))

\* a byte below 0x20 other than \n, \r, \t, or the byte 0x7F
ControlByte(c) == (c < 32 /\ c \notin {LF, CR, TAB}) \/ c = DEL

\* the number of bytes of s that satisfy P
CountBytes(s, P(_)) == Cardinality({i \in 1..Len(s) : P(s[i])})

IsBackslash(c) == c = BS

\* C10: to_scalarfs_uri gives the varchar form exactly for the contents with
\* no control byte, otherwise the blob form exactly when (backslashes +
\* control bytes) * 10 < length, and the base64 data: form otherwise.
C10_AutoSelect ==
    uriSrc = "to_scalarfs_uri" =>
        LET unsafe == CountBytes(content, ControlByte)
            few == (CountBytes(content, IsBackslash) + unsafe) * 10 < Len(content)
        IN  /\ StartsWith(uri, PfxVarchar) <=> unsafe = 0
            /\ StartsWith(uri, PfxBlob) <=> (unsafe > 0 /\ few)
            /\ StartsWith(uri, PfxDataBase64) <=> (unsafe > 0 /\ ~few)

\* a content with a control byte and a backslash was given the blob form
C10_Witness ==
    /\ uriSrc = "to_scalarfs_uri"
    /\ StartsWith(uri, PfxBlob)
    /\ CountBytes(content, ControlByte) > 0
    /\ CountBytes(content, IsBackslash) > 0

(***************************************************************************)
(* Properties of path-variable resolution                                  *)
(***************************************************************************)
\* the last call was a Glob of a pathvariable path in a session with context
GlobCall == io.op = "Glob" /\ PvCanHandle(io.path) /\ HasContext

CallFlags == Parse(io.path).flags

\* level 1 of that call, and its expanded candidates in pre-sort order
CallLevel1 == GlobResolve(Parse(io.path).variable_name, store, order)

CallCandidates == GlobCandidates(Parse(io.path), CallLevel1.paths, store, files)

\* the candidates a statement about Glob speaks of: the expanded
\* candidates, and the original path when the single variable is unresolved
StatedCandidates == IF CallLevel1.unresolved THEN <<io.path>> ELSE CallCandidates.val

\* whether a candidate exists: an inline content URI, or a backend file
CandidateExists(p) == DataCanHandleFile(p) \/ p \in DOMAIN files

\* the candidate with the smallest index among those that exist
FirstExisting(cands) ==
    LET ex == {i \in 1..Len(cands) : CandidateExists(cands[i])}
    IN  IF ex = {} THEN <<>> ELSE <<cands[CHOOSE i \in ex : \A j \in ex : i <= j]>>

\* a Glob with the search modifier whose modifier values resolved
SearchCall ==
    /\ GlobCall
    /\ HasFlag(CallFlags, "SEARCH")
    /\ (CallLevel1.unresolved \/ CallCandidates.ok)

\* C11 as stated: Glob with Search returns at most one result, the first
\* existing candidate in pre-sort order, and nothing (without error) when no
\* candidate exists.
C11_SearchAsStated ==
    SearchCall =>
        /\ io.ok
        /\ Len(io.out) <= 1
        /\ io.out = FirstExisting(StatedCandidates)

\* C11 amended: when the variable-name token resolved (a name pattern, or a
\* single variable holding text, binary or a list of them), Glob with Search
\* returns the first existing expanded candidate in pre-sort order, or
\* nothing when none exists; when the single variable is absent, null or
\* of a wrong type it returns the original path alone, search not applied.
C11_SearchAmended ==
    SearchCall =>
        /\ io.ok
        /\ Len(io.out) <= 1
        /\ io.out = IF CallLevel1.unresolved THEN <<io.path>>
                    ELSE FirstExisting(CallCandidates.val)

\* a search returned an existing candidate although another existing
\* candidate is lexicographically smaller
C11_Witness ==
    /\ SearchCall
    /\ ~CallLevel1.unresolved
    /\ Len(io.out) = 1
    /\ \E i \in 1..Len(CallCandidates.val) :
           /\ CandidateExists(CallCandidates.val[i])
           /\ LexLess(CallCandidates.val[i], io.out[1])

\* C12: the result of a Glob without NoCache is the same whatever order the
\* variable map enumerates its entries in, so that two calls on the same
\* store contents and the same backend return the same sequence.
C12_GlobDeterministic ==
    (GlobCall /\ ~HasFlag(CallFlags, "NO_CACHE")) =>
        \A o \in Orders :
            LET r == PvGlob(io.path, store, o, files, HasContext)
            IN  r.ok = io.ok /\ r.val = io.out

\* a Glob whose only transformation of the resolved paths is the prepend
\* step: prepend with resolved prefixes, no append, search or ignore-missing,
\* and no glob pattern in a prefix or in a resolved path
PrependCall ==
    /\ GlobCall
    /\ HasFlag(CallFlags, "PREPEND")
    /\ CallFlags \cap {"APPEND", "SEARCH", "IGNORE_MISSING"} = {}
    /\ ~CallLevel1.unresolved
    /\ ResolveValue(Parse(io.path).prepend_value, store).ok
    /\ ResolveValue(Parse(io.path).prepend_value, store).val # <<>>
    /\ \A i \in 1..Len(CallLevel1.paths) : ~HasGlob(CallLevel1.paths[i])

Exempted(p) == ShouldPassthru(CallFlags, p)

\* C13 as stated: with P prefix values, N candidates not exempted and K
\* exempted candidates the prepend step outputs P * N + K candidates, each
\* exempted candidate once.
C13_PrependSizing ==
    PrependCall =>
        LET cands == CallLevel1.paths
            P == Len(ResolveValue(Parse(io.path).prepend_value, store).val)
            K == Cardinality({i \in 1..Len(cands) : Exempted(cands[i])})
            N == Len(cands) - K
        IN  /\ io.ok
            /\ Len(io.out) = P * N + K
            /\ \A i \in 1..Len(cands) :
                   Exempted(cands[i]) => CountOf(io.out, cands[i]) = CountOf(cands, cands[i])

\* the last call was a Glob, possibly followed by the open of its first
\* entry, of a path whose variable-name token has no glob metacharacters and
\* names a variable that is absent, null, or neither text, binary nor a
\* list of them
WrongPathType(v) == v.type \notin {"VARCHAR", "BLOB", "VARCHAR[]", "BLOB[]"}

DeferredCase ==
    /\ io.op \in {"Glob", "OpenGlobbed"}
    /\ PvCanHandle(io.path)
    /\ HasContext
    /\ ~HasGlob(Parse(io.path).variable_name)
    /\ LET v == Lookup(store, Parse(io.path).variable_name)
       IN  v = Absent \/ v = NullValue \/ WrongPathType(v)

DeferredError ==
    LET v == Lookup(store, Parse(io.path).variable_name)
    IN  IF v = Absent THEN "NotFound" ELSE IF v = NullValue THEN "NullValue" ELSE "TypeMismatch"

\* C14: when the variable-name token has no glob metacharacters and the
\* variable is absent, null or of a wrong type, Glob raises no error and
\* returns exactly the original path; the OpenFile of that path that follows
\* fails, with NotFound, NullValue or TypeMismatch respectively.
C14_DeferredError ==
    DeferredCase =>
        /\ io.out = <<io.path>>
        /\ io.op = "Glob" => io.ok
        /\ io.op = "OpenGlobbed" => ~io.ok /\ io.err = DeferredError

\* the open that followed a Glob with modifiers of a wrongly typed variable
\* failed with TypeMismatch
C14_Witness ==
    /\ DeferredCase
    /\ io.op = "OpenGlobbed"
    /\ CallFlags # {}
    /\ io.err = "TypeMismatch"

\* a Glob without the search modifier whose modifier values resolved
PlainCall ==
    /\ GlobCall
    /\ ~HasFlag(CallFlags, "SEARCH")
    /\ (CallLevel1.unresolved \/ CallCandidates.ok)

\* the candidates that remain: those that exist when IgnoreMissing is set
Remaining(cands) ==
    IF HasFlag(CallFlags, "IGNORE_MISSING") THEN SelectSeq(cands, CandidateExists)
    ELSE cands

\* out is ascending and holds every path as many times as kept does
IsSortedPermutation(out, kept) ==
    /\ Len(out) = Len(kept)
    /\ \A i \in 1..Len(out) : \A j \in (i + 1)..Len(out) : ~LexLess(out[j], out[i])
    /\ \A i \in 1..Len(kept) : CountOf(out, kept[i]) = CountOf(kept, kept[i])

\* C15 as stated: without Search the result is the lexicographically sorted
\* sequence of all candidates, restricted to those that exist when
\* IgnoreMissing is set, each path as many times as it was produced.
C15_SortedAsStated ==
    PlainCall => io.ok /\ IsSortedPermutation(io.out, Remaining(StatedCandidates))

\* C15 amended: the statement holds when the variable-name token resolved;
\* when the single variable is absent, null or of a wrong type the result
\* is the original path alone, IgnoreMissing not applied.
C15_SortedAmended ==
    PlainCall =>
        /\ io.ok
        /\ IF CallLevel1.unresolved THEN io.out = <<io.path>>
           ELSE IsSortedPermutation(io.out, Remaining(CallCandidates.val))

\* a Glob with IgnoreMissing dropped a candidate and returned a path twice
C15_Witness ==
    /\ PlainCall
    /\ ~CallLevel1.unresolved
    /\ HasFlag(CallFlags, "IGNORE_MISSING")
    /\ Len(io.out) < Len(CallCandidates.val)
    /\ \E i \in 1..Len(io.out) : \E j \in (i + 1)..Len(io.out) : io.out[i] = io.out[j]

\* a name matches a pattern with one '*': it starts with what stands before
\* the star and ends with what stands after it
MatchesStarPattern(name, pattern) ==
    \E k \in 1..Len(pattern) :
        /\ pattern[k] = 42
        /\ Len(name) >= Len(pattern) - 1
        /\ SubSeq(name, 1, k - 1) = SubSeq(pattern, 1, k - 1)
        /\ SubSeq(name, Len(name) - (Len(pattern) - k) + 1, Len(name))
               = SubSeq(pattern, k + 1, Len(pattern))

\* the values a stored variable has: the scalar, or every non-null element
\* of a list, as strings, whatever the type
AnyTypeValues(v) ==
    IF v = Absent \/ v = NullValue THEN <<>>
    ELSE IF IsListType(v.type) THEN ChildStrings(v.children)
    ELSE <<ValueToString(v)>>

\* the same, of the variables holding text, binary or a list of them only
PathTypeValues(v) ==
    IF v = Absent \/ v = NullValue THEN <<>>
    ELSE IF v.type \in {"VARCHAR[]", "BLOB[]"} THEN ChildStrings(v.children)
    ELSE IF v.type \in {"VARCHAR", "BLOB"} THEN <<ValueToString(v)>>
    ELSE <<>>

\* a Glob over names with one '*' in the token whose result shows the
\* level-1 candidates: no modifier but no-glob and no-cache, and no glob
\* pattern in a value unless no-glob is set
NameGlobCall ==
    /\ GlobCall
    /\ CountOf(Parse(io.path).variable_name, 42) = 1
    /\ CallFlags \subseteq {"NO_GLOB", "NO_CACHE"}
    /\ \/ HasFlag(CallFlags, "NO_GLOB")
       \/ \A n \in DOMAIN store :
              \A i \in 1..Len(AnyTypeValues(store[n])) : ~HasGlob(AnyTypeValues(store[n])[i])

\* C16 as stated: the candidates of a Glob over names are exactly the values
\* (scalar, or every element of a list) of every stored variable whose name
\* matches the pattern, and the result holds them in sorted order.
C16_NameGlobAsStated ==
    NameGlobCall =>
        LET token == Parse(io.path).variable_name
            v1 == IF MatchesStarPattern(NameD1, token) THEN AnyTypeValues(store[NameD1]) ELSE <<>>
            v2 == IF MatchesStarPattern(NameD2, token) THEN AnyTypeValues(store[NameD2]) ELSE <<>>
        IN  io.ok /\ IsSortedPermutation(io.out, v1 \o v2)

\* C16 amended: the candidates are the values of every stored variable
\* whose name matches and whose value is text, binary or a list of them;
\* a matching variable that is null or of another type contributes nothing,
\* and neither do the null elements of a list.
C16_NameGlobAmended ==
    NameGlobCall =>
        LET token == Parse(io.path).variable_name
            v1 == IF MatchesStarPattern(NameD1, token) THEN PathTypeValues(store[NameD1]) ELSE <<>>
            v2 == IF MatchesStarPattern(NameD2, token) THEN PathTypeValues(store[NameD2]) ELSE <<>>
        IN  io.ok /\ IsSortedPermutation(io.out, v1 \o v2)

\* a Glob over *1 returned the two elements of d1 and not the value of d2
C16_Witness ==
    /\ NameGlobCall
    /\ ~MatchesStarPattern(NameD2, Parse(io.path).variable_name)
    /\ store[NameD2] = Varchar(PathB)
    /\ Len(io.out) = 2
    /\ io.out[1] # io.out[2]

\* opening the probed path for reading would fail with one of the errors
\* named: a missing or null variable, no session context, a malformed URI
ProbedOpenFails ==
    \/ /\ io.op = "VarFileExists"
       /\ CanHandleFile(io.path)
       /\ \/ ~HasContext
          \/ ~OpenReadResult(Lookup(store, ExtractVariableName(io.path))).ok
    \/ /\ io.op = "PvFileExists"
       /\ PvCanHandle(io.path)
       /\ PvOpenRead(io.path, store, HasContext, files).err
              \in {"NotFound", "NullValue", "ContextUnavailable", "MalformedUri"}
    \/ /\ io.op = "DataFileExists"
       /\ DataCanHandleFile(io.path)
       /\ ~DataOpenContent(io.path, FALSE).ok
    \/ /\ io.op = "DecompressFileExists"
       /\ ParseProtocol(io.path).ok
       /\ ~HasContext

\* C18: FileExists of every handler returns false whenever opening the same
\* path for reading would fail with an internal error (missing or null
\* variable, no session context, malformed URI).
C18_ProbesFalseOnFailure == ProbedOpenFails => ~io.ret

(***************************************************************************)
(* Properties of the read-only handles                                     *)
(***************************************************************************)
\* the last call opened a decompress path for reading, in a session with
\* context, over a backend file that exists
DecompressReadCall ==
    /\ io.op = "DecompressOpenRead"
    /\ HasContext
    /\ ParseProtocol(io.path).ok
    /\ ParseProtocol(io.path).underlying_path \in DOMAIN files

\* the buffered content of that file
BufferedContent == files[ParseProtocol(io.path).underlying_path]

\* the content passes the check of the format of the path: a gzip header
\* (ten bytes at least, 0x1F 0x8B, method 8), or the four bytes 28 B5 2F FD
PassesCheck ==
    IF ParseProtocol(io.path).format = "GZIP"
    THEN /\ Len(BufferedContent) >= 10
         /\ SubSeq(BufferedContent, 1, 3) = <<31, 139, 8>>
    ELSE /\ Len(BufferedContent) >= 4
         /\ BufferedContent[1] = 40 /\ BufferedContent[2] = 181
         /\ BufferedContent[3] = 47 /\ BufferedContent[4] = 253

\* C17 as stated: for every buffered content, opening a decompress path fails
\* with a format error when the content does not pass the check of its
\* format, and the decode routine is invoked only on content that passed.
C17_ValidatedAsStated ==
    DecompressReadCall =>
        /\ ~PassesCheck => (~io.ok /\ io.err = "FormatError")
        /\ io.decoded => PassesCheck

\* C17 amended: the statement holds for every content that is not empty; an
\* empty content opens, without decoding, as an empty file.
C17_ValidatedAmended ==
    DecompressReadCall =>
        /\ (~PassesCheck /\ BufferedContent # <<>>) => (~io.ok /\ io.err = "FormatError")
        /\ BufferedContent = <<>> =>
               (io.ok /\ ~io.decoded /\ mh.fs = "decompress" /\ mh.data = <<>>)
        /\ io.decoded => PassesCheck

\* decompress+zstd: was opened over four bytes that are the magic in the
\* wrong byte order, and the open failed with a format error
C17_Witness ==
    /\ DecompressReadCall
    /\ ParseProtocol(io.path).format = "ZSTD"
    /\ Len(BufferedContent) = 4
    /\ ~PassesCheck
    /\ io.err = "FormatError"
    /\ mh = NoMem

\* C19: Read(buf, n) on an in-memory handle returns min(n, length - cursor)
\* when cursor < length and 0 otherwise, advances the cursor by the returned
\* count and so never moves a cursor that was <= length past length;
\* Read(buf, n, offset) copies at most length - offset bytes, those at the
\* offset, and leaves the cursor unchanged.
C19_ReadClamped ==
    [][LET length == Len(mh.data)
           cursor == mh.position
           n == io'.nr_bytes
       IN  /\ io'.op = "Read" =>
                  /\ io'.count = IF cursor >= length THEN 0
                                 ELSE IF n <= length - cursor THEN n
                                 ELSE length - cursor
                  /\ mh'.position = cursor + io'.count
                  /\ cursor <= length => mh'.position <= length
                  /\ io'.out = SubSeq(mh.data, cursor + 1, cursor + io'.count)
                  /\ mh'.data = mh.data
           /\ io'.op = "ReadAt" =>
                  /\ Len(io'.out) <= (IF io'.location >= length THEN 0
                                      ELSE length - io'.location)
                  /\ Len(io'.out) <= n
                  /\ io'.out = SubSeq(mh.data, io'.location + 1,
                                      io'.location + Len(io'.out))
                  /\ (io'.location < length /\ n > 0) => io'.out # <<>>
                  /\ mh' = mh]_vars

\* a Read asked for more than was left of a variable's content and returned
\* the rest, the cursor now at the end
C19_Witness ==
    /\ io.op = "Read"
    /\ mh.fs = "variable"
    /\ io.count > 0
    /\ io.count < io.nr_bytes
    /\ mh.position = Len(mh.data)

\* the calls that would change a file: an open for writing, the two Writes
\* and RemoveFile
MutationOps ==
    {"DataOpenWrite", "DecompressOpenWrite", "Write", "WriteAt",
     "DataRemoveFile", "DecompressRemoveFile"}

\* C20: on the read-only protocols an open for writing, both Write variants
\* and RemoveFile fail with an error, TryRemoveFile returns false, and none
\* of them creates a handle or changes any state.
C20_ReadOnlyRejects ==
    [][/\ io'.op \in MutationOps =>
              (~io'.ok /\ io'.err # "none" /\ UNCHANGED <<mh, h, store, files>>)
       /\ io'.op \in {"DataTryRemoveFile", "DecompressTryRemoveFile"} =>
              (~io'.ret /\ UNCHANGED <<mh, h, store, files>>)]_vars

\* a Write on the handle of a decompressed content failed and the content
\* is what it was
C20_Witness ==
    /\ io.op = "Write"
    /\ ~io.ok
    /\ mh.fs = "decompress"
    /\ mh.data # <<>>

(***************************************************************************)
(* Properties of the write handle and of the pipeline                      *)
(***************************************************************************)
\* C21: Write(buf, n) on a write handle stores the n bytes starting at the
\* cursor and then advances the cursor by n, whatever calls came before; so
\* after a Seek below the buffer length the next Write overwrites.
C21_WriteAtCursor ==
    [][(call'.op = "Write" /\ io'.op = "Write" /\ h.mode = "write") =>
           /\ h'.buffer = WriteAtBuffer(h.buffer, io'.out, h.position)
           /\ h'.position = h.position + io'.nr_bytes]_vars

\* the bytes a stored value holds
StoredBytes(v) == IF v = Absent \/ v = NullValue THEN <<>> ELSE v.data

\* C22: a pipeline on the name a (open tmp_variable:a for writing, writes,
\* Close, MoveFile onto variable:a) that completed without error has
\* published under a exactly the bytes written through the handle, the
\* empty content when it wrote nothing.
C22_PipelinePublishes ==
    (io.op = "MoveFile" /\ io.ok) =>
        /\ store[NameA] # Absent
        /\ StoredBytes(store[NameA]) = io.out

\* C28: Write(buf, n, offset) on a write handle whose buffer has length L
\* leaves a buffer of length max(L, offset + n) whose bytes at
\* [offset, offset + n) are buf, whose other bytes below L are unchanged and
\* whose bytes between L and offset are zero; the cursor is unchanged and
\* the call does not fail, also for offset > L.
C28_WriteAtGrows ==
    [][(call'.op = "WriteAt" /\ io'.op = "WriteAt" /\ h.mode = "write") =>
           LET L == Len(h.buffer)
               offset == io'.location
               n == io'.nr_bytes
           IN  /\ io'.ok
               /\ Len(h'.buffer) = (IF offset + n > L THEN offset + n ELSE L)
               /\ \A i \in 1..Len(h'.buffer) :
                      h'.buffer[i] = IF i > offset /\ i <= offset + n THEN io'.out[i - offset]
                                     ELSE IF i <= L THEN h.buffer[i]
                                     ELSE NUL
               /\ h'.position = h.position]_vars

\* a byte was written at offset 1 of a buffer that was empty: the buffer
\* is a zero byte and that byte, the cursor still at 0
C28_Witness ==
    /\ io.op = "WriteAt"
    /\ call.op = "WriteAt"
    /\ io.location = 1
    /\ io.out = <<97>>
    /\ h.buffer = <<NUL, 97>>
    /\ h.position = 0

(***************************************************************************)
(* Properties of the parser                                                *)
(***************************************************************************)
ModifierKeywords ==
    {KwNoGlob, KwSearch, KwNoMissing, KwNoScalarfs, KwNoProtocols, KwNoCache,
     KwAppend, KwPrepend}

\* the part of a segment before its first '!', and the part after it
SegmentName(seg) ==
    IF FindByte(seg, BANG) # 0 THEN SubSeq(seg, 1, FindByte(seg, BANG) - 1) ELSE seg

SegmentValue(seg) ==
    IF FindByte(seg, BANG) # 0 THEN Substr(seg, FindByte(seg, BANG)) ELSE <<>>

IsModifierSegment(seg) == SegmentName(seg) \in ModifierKeywords

FlagOfKeyword(kw) ==
    IF kw = KwNoGlob THEN "NO_GLOB"
    ELSE IF kw = KwSearch THEN "SEARCH"
    ELSE IF kw = KwNoMissing THEN "IGNORE_MISSING"
    ELSE IF kw = KwNoScalarfs THEN "PASSTHRU_SCALARFS"
    ELSE IF kw = KwNoProtocols THEN "PASSTHRU_EXPLICIT_FS"
    ELSE IF kw = KwNoCache THEN "NO_CACHE"
    ELSE IF kw = KwAppend THEN "APPEND"
    ELSE "PREPEND"

\* the remainder of the parsed path after its prefix, and its segments
ParsedRemainder ==
    IF StartsWith(io.path, PfxTmpPathVariable) THEN Substr(io.path, 17)
    ELSE Substr(io.path, 13)

ParsedSegments == SplitSegments(ParsedRemainder)

\* index of the first segment that is not a modifier, 0 when all are
FirstNameIndex ==
    IF \A j \in 1..Len(ParsedSegments) : IsModifierSegment(ParsedSegments[j]) THEN 0
    ELSE CHOOSE i \in 1..Len(ParsedSegments) :
             /\ ~IsModifierSegment(ParsedSegments[i])
             /\ \A j \in 1..(i - 1) : IsModifierSegment(ParsedSegments[j])

\* the variable-name candidate: that segment joined with all later ones
NameCandidate == JoinSegments(ParsedSegments, FirstNameIndex)

\* append (prepend) was declared before the name, and without inline value
DeclaredValueless(kw) ==
    /\ \E j \in 1..(FirstNameIndex - 1) : SegmentName(ParsedSegments[j]) = kw
    /\ \A j \in 1..(FirstNameIndex - 1) :
           SegmentName(ParsedSegments[j]) = kw => SegmentValue(ParsedSegments[j]) = <<>>

C24_DeferredValue ==
    (/\ io.op = "Parse"
     /\ FirstNameIndex # 0
     /\ FindByte(NameCandidate, BANG) # 0
     /\ DeclaredValueless(KwAppend) \/ DeclaredValueless(KwPrepend)) =>
        /\ res.variable_name = SegmentName(NameCandidate)
        /\ \/ /\ DeclaredValueless(KwAppend)
              /\ res.append_value = ParseValue(SegmentValue(NameCandidate))
           \/ /\ DeclaredValueless(KwPrepend)
              /\ res.prepend_value = ParseValue(SegmentValue(NameCandidate))

(***************************************************************************)
(* Properties of the prepend and append steps of Glob                      *)
(***************************************************************************)
\* a Glob call that reached the prepend and append steps without error
StepsCall == GlobCall /\ res.op = "Glob" /\ res.ok

\* the prefix and suffix values of that call, empty when the step is skipped
CallPrefixes ==
    IF HasFlag(CallFlags, "PREPEND")
    THEN ResolveValue(Parse(io.path).prepend_value, store).val ELSE <<>>

CallSuffixes ==
    IF HasFlag(CallFlags, "APPEND")
    THEN ResolveValue(Parse(io.path).append_value, store).val ELSE <<>>

\* the exemption as stated: PassthruScalarfs and one of the fixed prefixes,
\* or PassthruExplicitProtocol and "://" at a position above 0 and below 20
StatedPrefixes == {PfxData, PfxVarchar, PfxBlob, PfxVariable, PfxPathVariable}

StatedExempt(p) ==
    \/ /\ "PASSTHRU_SCALARFS" \in CallFlags
       /\ \E pfx \in StatedPrefixes : StartsWith(p, pfx)
    \/ /\ "PASSTHRU_EXPLICIT_FS" \in CallFlags
       /\ \E pos \in 1..19 :
              /\ pos + 3 <= Len(p)
              /\ SubSeq(p, pos + 1, pos + 3) = MarkProtocol

\* where the outputs of candidate i start in the output of the append step
AppendOffset(cands, i) ==
    Cardinality({j \in 1..(i - 1) : StatedExempt(cands[j])})
    + Len(CallSuffixes) * Cardinality({j \in 1..(i - 1) : ~StatedExempt(cands[j])})

StatedJoin(left, right) ==
    LET left_sep == left # <<>> /\ IsSlash(left[Len(left)])
        right_sep == right # <<>> /\ IsSlash(right[1])
    IN  IF left_sep /\ right_sep THEN left \o Tail(right)
        ELSE IF ~left_sep /\ ~right_sep THEN left \o <<SLASH>> \o right
        ELSE left \o right

\* the join with an empty side returning the other side
AmendedJoin(left, right) ==
    IF left = <<>> THEN right
    ELSE IF right = <<>> THEN left
    ELSE StatedJoin(left, right)

\* C26 as stated: the prepend step outputs join(prefix, candidate), prefixes
\* outer and candidates inner, the append step join(candidate, suffix),
\* candidates outer and suffixes inner, with the join as stated.
C26_JoinAsStated ==
    StepsCall =>
        /\ CallPrefixes # <<>> =>
               LET c == res.resolved
                   N == Len(c)
               IN  \A a \in 1..Len(CallPrefixes), i \in 1..N :
                       ~StatedExempt(c[i]) =>
                           res.prepended[(a - 1) * N + i] = StatedJoin(CallPrefixes[a], c[i])
        /\ CallSuffixes # <<>> =>
               LET c == res.prepended
               IN  \A i \in 1..Len(c), b \in 1..Len(CallSuffixes) :
                       ~StatedExempt(c[i]) =>
                           res.appended[AppendOffset(c, i) + b] =
                               StatedJoin(c[i], CallSuffixes[b])

\* C26 (amended): the same order of outputs, with a join that returns the
\* other side unchanged when one side is empty and otherwise drops one
\* separator when both sides have one at the seam, inserts '/' when neither
\* has, and concatenates when one has; and pathvariable:append:d1!/s with
\* d1 = '/a' yields ["/a/s"].
C26_JoinAmended ==
    /\ StepsCall =>
           /\ CallPrefixes # <<>> =>
                  LET c == res.resolved
                      N == Len(c)
                  IN  \A a \in 1..Len(CallPrefixes), i \in 1..N :
                          ~StatedExempt(c[i]) =>
                              res.prepended[(a - 1) * N + i] =
                                  AmendedJoin(CallPrefixes[a], c[i])
           /\ CallSuffixes # <<>> =>
                  LET c == res.prepended
                  IN  \A i \in 1..Len(c), b \in 1..Len(CallSuffixes) :
                          ~StatedExempt(c[i]) =>
                              res.appended[AppendOffset(c, i) + b] =
                                  AmendedJoin(c[i], CallSuffixes[b])
    /\ (GlobCall /\ io.path = DeferredAppendPath /\ store[NameD1] = Varchar(PathA)) =>
           io.out = <<PathA \o DirS>>

\* two prefixes /r and /s met the two candidates /a and /b: the output is
\* /r/a, /r/b, /s/a, /s/b
C26_Witness ==
    /\ StepsCall
    /\ CallPrefixes = <<DirR, DirS>>
    /\ res.resolved = <<PathA, PathB>>
    /\ res.prepended = <<DirR \o PathA, DirR \o PathB, DirS \o PathA, DirS \o PathB>>

(***************************************************************************)
(* Properties of single-reference resolution                               *)
(***************************************************************************)
\* the temp path as stated: "tmp_" directly after the last '/' or '\', or
\* before the whole path when it has neither
StatedTempPath(t) ==
    LET seps == {i \in 1..Len(t) : t[i] = SLASH \/ t[i] = BS}
        last == IF seps = {} THEN 0 ELSE CHOOSE i \in seps : \A j \in seps : j <= i
    IN  [i \in 1..last |-> t[i]] \o StrTmp \o [i \in 1..(Len(t) - last) |-> t[last + i]]

\* the path a reference to d1 is stated to resolve to
StatedResolved(path) ==
    IF StartsWith(path, PfxTmpPathVariable) THEN StatedTempPath(store[NameD1].data)
    ELSE store[NameD1].data

WithoutFile(fl, p) == [q \in DOMAIN fl \ {p} |-> fl[q]]

\* C27: with d1 holding the target path T, OpenFile, FileExists and
\* RemoveFile of tmp_pathvariable:d1 act on T with "tmp_" inserted after
\* its last separator (before T when it has none) and those of
\* pathvariable:d1 on T itself; MoveFile(tmp_pathvariable:d1,
\* pathvariable:d1) moves that temp file onto T.
C27_TempRewrite ==
    [][(io.op = "none" /\ io'.op # "none" /\ store[NameD1] # Absent
        /\ PvCanHandle(io'.path)) =>
           LET target == StatedResolved(io'.path)
           IN  /\ io'.op = "OpenFile" => (io'.ok <=> target \in DOMAIN files)
               /\ io'.op = "PvFileExists" => (io'.ret <=> target \in DOMAIN files)
               /\ io'.op = "PvTryRemoveFile" =>
                      /\ io'.ret <=> target \in DOMAIN files
                      /\ files' = WithoutFile(files, target)
               /\ io'.op = "MoveFile" =>
                      /\ io'.ok <=> target \in DOMAIN files
                      /\ io'.ok =>
                             /\ DOMAIN files' =
                                    (DOMAIN files \ {target}) \cup {StatedResolved(io'.out)}
                             /\ files'[StatedResolved(io'.out)] = files[target]
                             /\ \A q \in DOMAIN files' :
                                    q # StatedResolved(io'.out) => files'[q] = files[q]
                      /\ ~io'.ok => files' = files]_vars

\* MoveFile(tmp_pathvariable:d1, pathvariable:d1) with d1 = '/s/a' has
\* moved /s/tmp_a onto /s/a
C27_Witness ==
    /\ io.op = "MoveFile"
    /\ io.ok
    /\ io.path = PvTmpPath
    /\ io.out = PvPath
    /\ store[NameD1] = Varchar(PathSA)
    /\ PathSA \in DOMAIN files
    /\ files[PathSA] = <<116>>
    /\ TmpOfSA \notin DOMAIN files

(***************************************************************************)
(* Properties of streaming zstd decompression                              *)
(***************************************************************************)
StreamExited == io.op = "DecompressContent" /\ io.pc \in {"returned", "raised"}

\* C29: on every exit of a streaming zstd decompression that created a
\* context, by return or by raising, the context has been released exactly
\* once.
C29_ContextReleased ==
    (StreamExited /\ io.created = 1) => io.released = 1

\* C30: streaming zstd decompression returns only when the frame was
\* decoded completely: the last codec call reported no more input needed
\* and the content returned is the whole plain content.
C30_CompleteFrameOnly ==
    (io.op = "DecompressContent" /\ io.pc = "returned") =>
        /\ io.ret = 0
        /\ io.decompressed = FramePlain(io.need)

=============================================================================
